---- MODULE Spec2Model ----
(***************************************************************************)
(* torchpack: the callback-driven training loop (train/trainer.py and the  *)
(* older trainer/base.py), the callback group (callbacks/group.py), the    *)
(* checkpoint savers (callbacks/checkpoint.py), the wrapper callbacks      *)
(* (callbacks/trigger.py) and the gather (distributed/comm.py).            *)
(***************************************************************************)
EXTENDS Integers, Sequences, FiniteSets, TLC

\* ------------------------------------------------------------------ bounds
\* The dataflow holds at most MaxStepsPerEpoch items.
MaxStepsPerEpoch == 2
\* starting_epoch and max_epoch are drawn up to MaxEpoch.
MaxEpoch == 3
\* Number of callbacks registered in the group.
NumCallbacks == 2
\* max_to_keep is drawn from 0..MaxToKeep.
MaxToKeep == 2
\* At most MaxPreexisting files are in the checkpoint directory at the start,
\* with modification times in 1..MaxInitMtime.
MaxPreexisting == 2
MaxInitMtime == 2
\* The file system's time stamp does not pass MaxClock.
MaxClock == 4
\* MinSaver / MaxSaver: the trainer advances to at most MaxSaverSteps, the saver
\* is triggered at most MaxSaverSteps times, the monitored scalar is in 1..MaxValue.
MaxSaverSteps == 4
MaxValue == 4
\* PeriodicTrigger periods (every_k_steps, every_k_epochs) are drawn from 1..MaxPeriod.
MaxPeriod == 3
\* The process group has 1..MaxWorldSize members.
MaxWorldSize == 3
\* The group on its own receives at most MaxNotifications notifications.
MaxNotifications == 2
\* A callback called directly receives at most MaxCalls calls.
MaxCalls == 3

\* ------------------------------------------------------------ scheduler state
VARIABLES
    impl,             \* "train": train/trainer.py Trainer.train; "base": trainer/base.py Trainer.main_loop
    steps_per_epoch,  \* self.steps_per_epoch = len(dataflow)
    starting_epoch,   \* self.starting_epoch
    max_epoch,        \* self.max_epoch
    assigned,         \* the counter attributes that exist on the trainer object
    epoch_num,        \* self.epoch_num
    global_step,      \* self.global_step
    local_step,       \* self.local_step
    pc,               \* position of the loop
    consumed,         \* items the dataflow iterator has yielded in this epoch
    feed_dict,        \* the loop's local feed_dict (args tuple: <<>> before the first item)
    output_dict,      \* the loop's local output_dict
    exc,              \* exception propagating out of the try body ("none" if none)
    caught,           \* exception an except clause of the loop has handled ("none" if none)
    result,           \* how the training entry point ended: "running", "returned", or the exception raised
    events            \* the notifications emitted so far, each with what the hooks could observe

schedVars == <<impl, steps_per_epoch, starting_epoch, max_epoch, assigned, epoch_num,
               global_step, local_step, pc, consumed, feed_dict, output_dict, exc,
               caught, result, events>>

Impls == {"train", "base"}

\* What a callback handler, or the step function, can do when called.
Outcomes == {"ok", "StopTraining", "Exception", "KeyboardInterrupt"}

\* after_train handlers return or raise an ordinary exception.
AfterTrainOutcomes == {"ok", "Exception"}

\* The k-th item of the dataflow (the same items in every epoch).
FeedDict(k) == <<"feed_dict", k>>

\* The output of the step function run on item k in epoch e.
OutputDict(e, k) == <<"output_dict", e, k>>

\* ------------------------------------------------------------ callback group
\* Callbacks._after_train: each member's after_train inside try/except Exception
\* (the traceback is printed, `logged`). KeyboardInterrupt is a BaseException
\* and is not caught.
RECURSIVE AfterTrainFrom(_, _)
AfterTrainFrom(i, outs) ==
    IF i > NumCallbacks THEN [got |-> <<>>, exc |-> "none", logged |-> <<>>]
    ELSE IF outs[i] = "KeyboardInterrupt"
         THEN [got |-> <<i>>, exc |-> outs[i], logged |-> <<>>]
    ELSE LET rest == AfterTrainFrom(i + 1, outs)
         IN  [got |-> <<i>> \o rest.got, exc |-> rest.exc,
              logged |-> IF outs[i] = "ok" THEN rest.logged ELSE <<i>> \o rest.logged]

\* Callbacks._before_train, _before_epoch, _after_epoch, _before_step,
\* _after_step, _trigger_epoch, trigger_step: `for cb in self.callbacks: cb.x()`.
\* outs[i] is what member i's handler does; the first raise ends the loop.
RECURSIVE FanOutFrom(_, _)
FanOutFrom(i, outs) ==
    IF i > NumCallbacks THEN [got |-> <<>>, exc |-> "none", logged |-> <<>>]
    ELSE IF outs[i] # "ok" THEN [got |-> <<i>>, exc |-> outs[i], logged |-> <<>>]
    ELSE LET rest == FanOutFrom(i + 1, outs)
         IN  [got |-> <<i>> \o rest.got, exc |-> rest.exc, logged |-> <<>>]

\* Mutant of GroupFanOut: the members are called last to first.
GroupFanOutReversed(name, outs) ==
    LET r == FanOutFrom(1, [i \in 1..NumCallbacks |-> outs[NumCallbacks + 1 - i]])
    IN  [got |-> [k \in DOMAIN r.got |-> NumCallbacks + 1 - r.got[k]], exc |-> r.exc,
         logged |-> r.logged]

\* Callbacks._setup_trainer ... _trigger: the loop over self.callbacks that
\* notification `name` runs.
GroupFanOut(name, outs) ==
    IF name = "after_train" THEN AfterTrainFrom(1, outs) ELSE FanOutFrom(1, outs)

\* Mutant of FanOut: every notification guarded like after_train.
FanOutGuarded(outs) == AfterTrainFrom(1, outs)

FanOut(outs) == FanOutFrom(1, outs)

\* Mutant of AfterTrainFanOut: the plain loop, without try/except.
AfterTrainFanOutNoIsolation(outs) == FanOutFrom(1, outs)

AfterTrainFanOut(outs) == AfterTrainFrom(1, outs)

\* One emitted notification: its name, the positional arguments handed to the
\* group, the members whose handler was entered (in order), the exception the
\* dispatch let out, and the counters as a hook could read them during it.
Event(name, args, r, e, l, g, a) ==
    [name |-> name, args |-> args, got |-> r.got, raised |-> r.exc, logged |-> r.logged,
     has_local_step |-> "local_step" \in a,
     epoch_num |-> e, local_step |-> l, global_step |-> g]

\* ------------------------------------------------------------ checkpoint state
VARIABLES
    max_to_keep,  \* ModelSaver.max_to_keep
    disk,         \* the checkpoint directory: file name -> modification time, 0 if absent
    clock,        \* the file system's current time stamp
    filenames,    \* ModelSaver.filenames, the heapq list of (mtime, filename)
    saver_pc,     \* "new" after construction, "ready" once before_train has completed
    saver_exc,    \* exception the last ModelSaver call let out ("none" if none)
    last_call     \* what the last ModelSaver call did (for the properties)

saverVars == <<max_to_keep, disk, clock, filenames, saver_pc, saver_exc, last_call>>

\* ------------------------------------------------------------ further objects
VARIABLES
    minsaver,     \* a MinSaver / MaxSaver, the monitors' series it reads and writes, its file
    hook,         \* a wrapper callback around an inner callback, or a LambdaCallback
    comm,         \* the process group: each rank's call of allgather and barrier
    restore,      \* the calls of state_dict / load_state_dict made on the trainer
    group,        \* a Callbacks group called directly: what it was sent, what it did
    tracker       \* a GPUUtilizationTracker, its worker process, their event and queue

extVars == <<minsaver, hook, comm, restore, group, tracker>>

\* What the actions of one object leave unchanged among the others.
exceptMinsaver == <<hook, comm, restore, group, tracker>>
exceptHook == <<minsaver, comm, restore, group, tracker>>
exceptComm == <<minsaver, hook, restore, group, tracker>>
exceptRestore == <<minsaver, hook, comm, group, tracker>>
exceptGroup == <<minsaver, hook, comm, restore, tracker>>
exceptTracker == <<minsaver, hook, comm, restore, group>>

vars == <<schedVars, saverVars, extVars>>

\* No MinSaver is registered.
NoMinSaver ==
    [reverse  |-> FALSE,   \* self.reverse
     best     |-> <<>>,    \* self.best: <<>> for None, else <<step, value>>
     latest   |-> <<>>,    \* the last entry of the monitors' series of self.key (<<>>: none)
     extreme  |-> <<>>,    \* the monitors' series of self.key + '/min' or '/max'
     file     |-> <<>>,    \* the step whose state the saver's file holds (<<>>: no file)
     attempts |-> <<>>,    \* the steps at which torch.save was called
     fed      |-> {},      \* the values trigger has compared so far
     last     |-> [step |-> 0, fed |-> FALSE, value |-> 0, save |-> "none",
                   best_before |-> <<>>, best_after |-> <<>>, earlier |-> {},
                   raised |-> "none"]]

\* No wrapper callback is registered.
NoHook ==
    [kind            |-> "none",  \* the wrapper's class
     step_k          |-> <<>>,    \* _step_k / _every_k_steps: <<>> for None, else <<k>>
     epoch_k         |-> <<>>,    \* _epoch_k / _every_k_epochs: <<>> for None, else <<k>>
     do_before_train |-> FALSE,   \* PeriodicTrigger._do_before_train
     bound           |-> {},      \* LambdaCallback: the notifications a handler was given for
     chief_only      |-> TRUE,    \* the object's own _chief_only
     inner_chief_only |-> TRUE,   \* the inner callback's _chief_only
     ctor            |-> [cls |-> "none", every_k_steps |-> <<>>, every_k_epochs |-> <<>>,
                          before_train |-> FALSE, chief_only |-> TRUE],
                                  \* the constructor call: the class, its arguments, and
                                  \* the chief_only of the callback it was given
     has_enabled     |-> FALSE,   \* whether EnableCallbackIf._enabled has been assigned
     enabled         |-> FALSE,   \* EnableCallbackIf._enabled
     delivered       |-> 0,       \* how many of the loop's events the wrapper has handled
     calls           |-> <<>>]    \* the notifications handled, with what the inner callback got

\* No process group.
NoComm ==
    [world_size |-> 0,      \* dist.size()
     data       |-> <<>>,   \* rank -> the value the rank passes to allgather
     pc         |-> <<>>,   \* rank -> where the rank is in allgather / barrier
     sizes      |-> <<>>,   \* rank -> local_size given to the first all_gather (0: not yet)
     tensors    |-> <<>>,   \* rank -> tensor given to the second all_gather (<<>>: not yet)
     out        |-> <<>>,   \* rank -> the list allgather returned (<<>>: not yet)
     reduced    |-> <<>>,   \* rank -> what allreduce returns from that list (-1: not yet, or raised)
     exchanges  |-> 0]      \* collective calls entered so far, over all ranks

\* The group has not been called.
NoGroupCall ==
    [sent   |-> 0,        \* notifications the group has received
     name   |-> "none",   \* the last of them
     outs   |-> <<>>,     \* what each member's handler does when called for it
     got    |-> <<>>,     \* the members whose handler was entered, in order
     raised |-> "none",   \* the exception the group let out
     logged |-> <<>>,     \* the members whose exception the group printed
     is_chief  |-> TRUE,  \* Trainer.is_chief of trainer/base.py
     flags     |-> <<>>,  \* chief_only of each object setup_callbacks is to register
     next      |-> 0,     \* how many of them register_callback has been called for
     callbacks |-> <<>>,  \* Trainer.callbacks: the registered ones, by position in flags
     setup     |-> FALSE] \* whether Trainer.callbacks has become the group

\* The counters as a triple: epoch_num, local_step, global_step.
NoCounters == <<0, 0, 0>>

\* Neither state_dict nor load_state_dict has been called.
NoRestore ==
    [loaded     |-> <<>>,        \* the record a resuming caller gave load_state_dict (<<>>: none)
     loaded_at  |-> 0,           \* how many notifications had been emitted by then
     restored   |-> FALSE,       \* whether a state_dict() result has been restored in place
     before     |-> NoCounters,  \* the counters when the last of them was taken
     after      |-> NoCounters,  \* the counters once it was restored
     raised     |-> "none",      \* the exception the last state_dict() let out
     record     |-> <<>>,        \* the record object given to load_state_dict, as it is now
     again      |-> "no"]        \* the outcome of loading that object a second time ("no": not done)

\* One call of GPUUtilizationTracker._trigger_epoch: what queue.get gave
\* ("timeout" for queue.Empty, "None", "result"; "no": not called yet), the
\* exception let out, and whether the utilisation scalars were recorded.
NoGet == [got |-> "no", raised |-> "none", recorded |-> FALSE]

\* No GPUUtilizationTracker is registered.
NoTracker ==
    [main     |-> "off",     \* where the training process is in its run
     epochs   |-> 0,         \* the number of epochs of the run
     epoch    |-> 0,         \* the epochs begun so far
     event    |-> FALSE,     \* self.event: whether the flag is set
     queue    |-> <<>>,      \* self.queue: what was put and not yet taken
     worker   |-> "off",     \* where the worker process is in _worker
     failed   |-> FALSE,     \* whether the worker died or caught an exception
     puts     |-> 0,         \* the results the worker has put
     scalars  |-> 0,         \* the calls of add_scalar('utilization/gpu', ...)
     last     |-> NoGet,     \* the last call of _trigger_epoch
     pending  |-> "none",    \* the exception that left the try body of the loop
     result   |-> "running"] \* how the run ended

\* The objects that take no part in a specification stay as constructed.
IdleExcept(v) ==
    /\ IF v = "minsaver" THEN TRUE ELSE minsaver = NoMinSaver
    /\ IF v = "hook" THEN TRUE ELSE hook = NoHook
    /\ IF v = "comm" THEN TRUE ELSE comm = NoComm
    /\ IF v = "restore" THEN TRUE ELSE restore = NoRestore
    /\ IF v = "group" THEN TRUE ELSE group = NoGroupCall
    /\ IF v = "tracker" THEN TRUE ELSE tracker = NoTracker

\* ------------------------------------------------------------ file names
\* global_step values at which the saver is triggered, and the step numbers of
\* the files found in the directory (10 sorts before 2 as a string).
StepNames == {1, 2, 10}

\* A file name is <<prefix, n>>: "step-n.pth", "STEP-n.PTH", or a file of
\* another saver ("max-n.pth").
FileNames == ({"step-"} \X StepNames) \cup {<<"STEP-", 2>>, <<"max-", 1>>}

\* filename.lower()
Lower(name) == IF name[1] = "STEP-" THEN <<"step-", name[2]>> ELSE name

\* filename.startswith('step-') and filename.endswith('.pth')
Matches(name) == name[1] = "step-"

\* 'step-{}.pth'.format(self.trainer.global_step)
SavePath(step) == <<"step-", step>>

\* The decimal digits of n, as character codes.
RECURSIVE Digits(_)
Digits(n) == IF n < 10 THEN <<48 + n>> ELSE Digits(n \div 10) \o <<48 + (n % 10)>>

\* The characters of a file name, as character codes.
Chars(name) ==
    CASE name[1] = "step-" -> <<115, 116, 101, 112, 45>> \o Digits(name[2]) \o <<46, 112, 116, 104>>
      [] name[1] = "STEP-" -> <<83, 84, 69, 80, 45>> \o Digits(name[2]) \o <<46, 80, 84, 72>>
      [] OTHER -> <<109, 97, 120, 45>> \o Digits(name[2]) \o <<46, 112, 116, 104>>

\* Python's str <: lexicographic by character code.
RECURSIVE SeqLess(_, _)
SeqLess(a, b) ==
    IF b = <<>> THEN FALSE
    ELSE IF a = <<>> THEN TRUE
    ELSE IF Head(a) # Head(b) THEN Head(a) < Head(b)
    ELSE SeqLess(Tail(a), Tail(b))

\* Python's tuple < on (mtime, filename); all paths share the directory prefix.
TupleLess(a, b) == a[1] < b[1] \/ (a[1] = b[1] /\ SeqLess(Chars(a[2]), Chars(b[2])))

\* ------------------------------------------------------------ heapq
\* heapq._siftdown(heap, startpos, pos), positions counted from 1.
RECURSIVE SiftDownLoop(_, _, _, _)
SiftDownLoop(heap, startpos, pos, newitem) ==
    IF pos > startpos /\ TupleLess(newitem, heap[pos \div 2])
    THEN SiftDownLoop([heap EXCEPT ![pos] = heap[pos \div 2]], startpos, pos \div 2, newitem)
    ELSE [heap EXCEPT ![pos] = newitem]

SiftDown(heap, startpos, pos) == SiftDownLoop(heap, startpos, pos, heap[pos])

\* heapq._siftup(heap, pos), positions counted from 1.
RECURSIVE SiftUpLoop(_, _, _, _)
SiftUpLoop(heap, startpos, pos, newitem) ==
    LET childpos == 2 * pos
        rightpos == childpos + 1
        c == IF rightpos <= Len(heap) /\ ~TupleLess(heap[childpos], heap[rightpos])
             THEN rightpos ELSE childpos
    IN  IF childpos <= Len(heap)
        THEN SiftUpLoop([heap EXCEPT ![pos] = heap[c]], startpos, c, newitem)
        ELSE SiftDown([heap EXCEPT ![pos] = newitem], startpos, pos)

SiftUp(heap, pos) == SiftUpLoop(heap, pos, pos, heap[pos])

\* heapq.heappush(heap, item)
HeapPush(heap, item) == SiftDown(Append(heap, item), 1, Len(heap) + 1)

\* Mutant of HeapPop: list.pop() in place of heappop.
HeapPopLast(heap) == [item |-> heap[Len(heap)], heap |-> SubSeq(heap, 1, Len(heap) - 1)]

\* heapq.heappop(heap)
HeapPop(heap) ==
    LET lastelt == heap[Len(heap)]
        rest == SubSeq(heap, 1, Len(heap) - 1)
    IN  IF rest # <<>>
        THEN [item |-> rest[1], heap |-> SiftUp([rest EXCEPT ![1] = lastelt], 1)]
        ELSE [item |-> lastelt, heap |-> rest]

\* ------------------------------------------------------------ ModelSaver
\* The while loop of _add_checkpoint: pop the smallest record and remove its
\* file (FileNotFoundError is caught and logged). Each eviction is recorded
\* with the records held when it happened.
RECURSIVE Evict(_, _, _, _)
Evict(heap, dsk, k, evs) ==
    IF Len(heap) > k
    THEN LET p == HeapPop(heap)
             fn == p.item[2]
         IN  Evict(p.heap, [dsk EXCEPT ![fn] = 0], k,
                   Append(evs, [held |-> heap, popped |-> p.item, existed |-> dsk[fn] # 0]))
    ELSE [heap |-> heap, disk |-> dsk, exc |-> "none", evictions |-> evs]

\* Mutant of AddCheckpoint: `while len(self.filenames) > self.max_to_keep + 1`.
AddCheckpointOffByOne(heap, dsk, path, k) ==
    IF dsk[path] = 0
    THEN [heap |-> heap, disk |-> dsk, exc |-> "FileNotFoundError", evictions |-> <<>>]
    ELSE Evict(HeapPush(heap, <<dsk[path], path>>), dsk, k + 1, <<>>)

\* ModelSaver._add_checkpoint(filename): os.path.getmtime raises
\* FileNotFoundError for a missing file, before anything is pushed.
AddCheckpoint(heap, dsk, path, k) ==
    IF dsk[path] = 0
    THEN [heap |-> heap, disk |-> dsk, exc |-> "FileNotFoundError", evictions |-> <<>>]
    ELSE Evict(HeapPush(heap, <<dsk[path], path>>), dsk, k, <<>>)

\* The loop of ModelSaver._before_train over os.listdir(), in the order
\* `listing`; an exception out of _add_checkpoint ends it.
RECURSIVE Scan(_, _, _, _, _)
Scan(listing, heap, dsk, k, evs) ==
    IF listing = <<>> THEN [heap |-> heap, disk |-> dsk, exc |-> "none", evictions |-> evs]
    ELSE LET filename == Lower(Head(listing))
         IN  IF Matches(filename)
             THEN LET r == AddCheckpoint(heap, dsk, filename, k)
                  IN  IF r.exc # "none"
                      THEN [heap |-> r.heap, disk |-> r.disk, exc |-> r.exc,
                            evictions |-> evs \o r.evictions]
                      ELSE Scan(Tail(listing), r.heap, r.disk, k, evs \o r.evictions)
             ELSE Scan(Tail(listing), heap, dsk, k, evs)

\* os.listdir returns the directory's entries in arbitrary order.
Listings(dsk) ==
    LET present == {n \in FileNames : dsk[n] # 0}
    IN  {l \in [1..Cardinality(present) -> present] :
            \A i, j \in DOMAIN l : i # j => l[i] # l[j]}

\* What torch.save can do: write the file; fail before the file is opened; or
\* fail while writing, leaving a partial file.
SaveOutcomes == {"ok", "OSError", "OSErrorPartial"}

\* ------------------------------------------------------------ the training loop
\* Mutant of Propagated: no `except StopTraining` clause.
PropagatedUncaught(e) == e

\* Mutant of Propagated: `except KeyboardInterrupt` without the `raise`.
PropagatedSwallowed(e) == IF e \in {"StopTraining", "KeyboardInterrupt"} THEN "none" ELSE e

\* `except StopTraining` (train/trainer.py) and `except StopTraining` /
\* `except KeyboardInterrupt: raise` (trainer/base.py): the exception that still
\* propagates once the except clauses have run.
Propagated(e) == IF e = "StopTraining" THEN "none" ELSE e

\* Leaving a statement of the try body: on to `nxt`, or out to the finally block.
Leave(e, nxt) ==
    IF e = "none"
    THEN pc' = nxt /\ UNCHANGED <<exc, caught>>
    ELSE /\ pc' = "finally"
         /\ exc' = Propagated(e)
         /\ caught' = IF Propagated(e) = "none" THEN e ELSE "none"

Emit(name, args, r) ==
    events' = Append(events, Event(name, args, r, epoch_num, local_step, global_step, assigned))

\* The same, reading the counters as the statement has just set them.
EmitWith(name, args, r, e, l, g, a) ==
    events' = Append(events, Event(name, args, r, e, l, g, a))

InitSched ==
    /\ impl \in Impls
    /\ steps_per_epoch \in 0..MaxStepsPerEpoch
    /\ starting_epoch \in 1..(MaxEpoch + 1)
    /\ max_epoch \in 0..MaxEpoch
    \* trainer/base.py __init__ sets the three counters; train/trainer.py has no
    \* __init__ and its counters do not exist before train() assigns them.
    /\ assigned = IF impl = "base" THEN {"epoch_num", "global_step", "local_step"} ELSE {}
    /\ epoch_num = 0
    /\ global_step = 0
    /\ local_step = IF impl = "base" THEN -1 ELSE 0
    /\ pc = "begin"
    /\ consumed = 0
    /\ feed_dict = <<>>
    /\ output_dict = <<>>
    /\ exc = "none"
    /\ caught = "none"
    /\ result = "running"
    /\ events = <<>>

\* Mutant of Begin: the counter starts at starting_epoch.
BeginAtStartingEpoch ==
    /\ pc = "begin"
    /\ epoch_num' = starting_epoch
    /\ global_step' = epoch_num' * steps_per_epoch
    /\ assigned' = assigned \cup {"epoch_num", "global_step"}
    /\ pc' = "before_train"
    /\ UNCHANGED <<impl, steps_per_epoch, starting_epoch, max_epoch, local_step, consumed,
                   feed_dict, output_dict, exc, caught, result, events, saverVars,
                   extVars>>

\* train/trainer.py 64-65, trainer/base.py 127-128.
Begin ==
    /\ pc = "begin"
    /\ epoch_num' = starting_epoch - 1
    /\ global_step' = epoch_num' * steps_per_epoch
    /\ assigned' = assigned \cup {"epoch_num", "global_step"}
    /\ pc' = "before_train"
    /\ UNCHANGED <<impl, steps_per_epoch, starting_epoch, max_epoch, local_step, consumed,
                   feed_dict, output_dict, exc, caught, result, events, saverVars,
                   extVars>>

\* self.before_train() / self.callbacks.before_train()
BeforeTrain ==
    /\ pc = "before_train"
    /\ \E outs \in [1..NumCallbacks -> Outcomes] :
          LET r == FanOut(outs)
          IN  /\ Emit("before_train", <<>>, r)
              /\ Leave(r.exc, "while")
    /\ UNCHANGED <<impl, steps_per_epoch, starting_epoch, max_epoch, assigned, epoch_num,
                   global_step, local_step, consumed, feed_dict, output_dict, result,
                   saverVars,
                   extVars>>

\* train/trainer.py 70-77: the while test, the increments, before_epoch.
TrainEpoch ==
    /\ impl = "train"
    /\ pc = "while"
    /\ IF epoch_num < max_epoch
       THEN /\ epoch_num' = epoch_num + 1
            /\ local_step' = 0
            /\ assigned' = assigned \cup {"local_step"}
            /\ consumed' = 0
            /\ \E outs \in [1..NumCallbacks -> Outcomes] :
                  LET r == FanOut(outs)
                  IN  /\ EmitWith("before_epoch", <<>>, r, epoch_num', local_step',
                                  global_step, assigned')
                      /\ Leave(r.exc, "for")
       ELSE /\ pc' = "finally"
            /\ UNCHANGED <<epoch_num, local_step, assigned, consumed, exc, caught, events>>
    /\ UNCHANGED <<impl, steps_per_epoch, starting_epoch, max_epoch, global_step, feed_dict,
                   output_dict, result, saverVars,
                   extVars>>

\* trainer/base.py 132-134: `for self.epoch_num in range(starting_epoch, max_epoch + 1)`
\* (epoch_num is starting_epoch - 1 before the first value and the previous
\* value afterwards, so the next value of the range is epoch_num + 1).
BaseEpoch ==
    /\ impl = "base"
    /\ pc = "while"
    /\ IF epoch_num + 1 <= max_epoch
       THEN /\ epoch_num' = epoch_num + 1
            /\ consumed' = 0
            /\ \E outs \in [1..NumCallbacks -> Outcomes] :
                  LET r == FanOut(outs)
                  IN  /\ EmitWith("before_epoch", <<>>, r, epoch_num', local_step,
                                  global_step, assigned)
                      /\ Leave(r.exc, "for")
       ELSE /\ pc' = "finally"
            /\ UNCHANGED <<epoch_num, consumed, exc, caught, events>>
    /\ UNCHANGED <<impl, steps_per_epoch, starting_epoch, max_epoch, assigned, global_step,
                   local_step, feed_dict, output_dict, result, saverVars,
                   extVars>>

\* train/trainer.py 79-83: the next item, the increments, before_step(feed_dict).
TrainBeforeStep ==
    /\ impl = "train"
    /\ pc = "for"
    /\ consumed < steps_per_epoch
    /\ consumed' = consumed + 1
    /\ feed_dict' = <<FeedDict(consumed')>>
    /\ local_step' = local_step + 1
    /\ global_step' = global_step + 1
    /\ \E outs \in [1..NumCallbacks -> Outcomes] :
          LET r == FanOut(outs)
          IN  /\ EmitWith("before_step", feed_dict', r, epoch_num, local_step',
                          global_step', assigned)
              /\ Leave(r.exc, "run_step")
    /\ UNCHANGED <<impl, steps_per_epoch, starting_epoch, max_epoch, assigned, epoch_num,
                   output_dict, result, saverVars,
                   extVars>>

\* trainer/base.py 139-145: `for self.local_step, ... in enumerate(self.loader)`,
\* then self.callbacks.before_step() with no argument.
BaseBeforeStep ==
    /\ impl = "base"
    /\ pc = "for"
    /\ consumed < steps_per_epoch
    /\ consumed' = consumed + 1
    /\ feed_dict' = <<FeedDict(consumed')>>
    /\ local_step' = consumed
    /\ \E outs \in [1..NumCallbacks -> Outcomes] :
          LET r == FanOut(outs)
          IN  /\ EmitWith("before_step", <<>>, r, epoch_num, local_step',
                          global_step, assigned)
              /\ Leave(r.exc, "run_step")
    /\ UNCHANGED <<impl, steps_per_epoch, starting_epoch, max_epoch, assigned, epoch_num,
                   global_step, output_dict, result, saverVars,
                   extVars>>

\* train/trainer.py 84, trainer/base.py 146: the externally supplied step function.
RunStep ==
    /\ pc = "run_step"
    /\ \E out \in Outcomes :
          /\ Emit("run_step", feed_dict,
                  [got |-> <<>>, exc |-> IF out = "ok" THEN "none" ELSE out,
                   logged |-> <<>>])
          /\ output_dict' = IF out = "ok" THEN <<OutputDict(epoch_num, consumed)>>
                            ELSE output_dict
          /\ Leave(IF out = "ok" THEN "none" ELSE out, "after_step")
    /\ UNCHANGED <<impl, steps_per_epoch, starting_epoch, max_epoch, assigned, epoch_num,
                   global_step, local_step, consumed, feed_dict, result, saverVars,
                   extVars>>

\* train/trainer.py 85 and 139-141: self.callbacks.after_step(output_dict);
\* trainer/base.py 147: self.callbacks.after_step() with no argument.
AfterStep ==
    /\ pc = "after_step"
    /\ \E outs \in [1..NumCallbacks -> Outcomes] :
          LET r == FanOut(outs)
          IN  /\ Emit("after_step", IF impl = "train" THEN output_dict ELSE <<>>, r)
              /\ Leave(r.exc, "trigger_step")
    /\ UNCHANGED <<impl, steps_per_epoch, starting_epoch, max_epoch, assigned, epoch_num,
                   global_step, local_step, consumed, feed_dict, output_dict, result,
                   saverVars,
                   extVars>>

\* train/trainer.py 87; trainer/base.py 149-150, where global_step is
\* incremented once trigger_step has returned.
TriggerStep ==
    /\ pc = "trigger_step"
    /\ \E outs \in [1..NumCallbacks -> Outcomes] :
          LET r == FanOut(outs)
          IN  /\ Emit("trigger_step", <<>>, r)
              /\ Leave(r.exc, "for")
              /\ global_step' = IF impl = "base" /\ r.exc = "none"
                                THEN global_step + 1 ELSE global_step
    /\ UNCHANGED <<impl, steps_per_epoch, starting_epoch, max_epoch, assigned, epoch_num,
                   local_step, consumed, feed_dict, output_dict, result, saverVars,
                   extVars>>

\* Mutant of AfterEpoch: an epoch without steps has no after_epoch.
AfterEpochSkippingEmpty ==
    /\ pc = "for"
    /\ consumed = steps_per_epoch
    /\ IF steps_per_epoch = 0
       THEN /\ pc' = "trigger_epoch"
            /\ UNCHANGED <<exc, caught, events>>
       ELSE \E outs \in [1..NumCallbacks -> Outcomes] :
               LET r == FanOut(outs)
               IN  /\ Emit("after_epoch", <<>>, r)
                   /\ Leave(r.exc, "trigger_epoch")
    /\ UNCHANGED <<impl, steps_per_epoch, starting_epoch, max_epoch, assigned, epoch_num,
                   global_step, local_step, consumed, feed_dict, output_dict, result,
                   saverVars,
                   extVars>>

\* train/trainer.py 89, trainer/base.py 152: the dataflow is exhausted.
AfterEpoch ==
    /\ pc = "for"
    /\ consumed = steps_per_epoch
    /\ \E outs \in [1..NumCallbacks -> Outcomes] :
          LET r == FanOut(outs)
          IN  /\ Emit("after_epoch", <<>>, r)
              /\ Leave(r.exc, "trigger_epoch")
    /\ UNCHANGED <<impl, steps_per_epoch, starting_epoch, max_epoch, assigned, epoch_num,
                   global_step, local_step, consumed, feed_dict, output_dict, result,
                   saverVars,
                   extVars>>

\* train/trainer.py 93, trainer/base.py 154.
TriggerEpoch ==
    /\ pc = "trigger_epoch"
    /\ \E outs \in [1..NumCallbacks -> Outcomes] :
          LET r == FanOut(outs)
          IN  /\ Emit("trigger_epoch", <<>>, r)
              /\ Leave(r.exc, "while")
    /\ UNCHANGED <<impl, steps_per_epoch, starting_epoch, max_epoch, assigned, epoch_num,
                   global_step, local_step, consumed, feed_dict, output_dict, result,
                   saverVars,
                   extVars>>

\* Mutant of Finally: after_train as the last statement of the try body instead
\* of a finally block, so that it runs only when nothing was raised.
FinallyNotOnError ==
    /\ pc = "finally"
    /\ IF exc = "none" /\ caught = "none"
       THEN \E outs \in [1..NumCallbacks -> AfterTrainOutcomes] :
               LET r == AfterTrainFanOut(outs)
               IN  /\ Emit("after_train", <<>>, r)
                   /\ result' = IF r.exc # "none" THEN r.exc ELSE "returned"
       ELSE /\ result' = IF exc # "none" THEN exc ELSE "returned"
            /\ UNCHANGED events
    /\ pc' = "done"
    /\ UNCHANGED <<impl, steps_per_epoch, starting_epoch, max_epoch, assigned, epoch_num,
                   global_step, local_step, consumed, feed_dict, output_dict, exc, caught,
                   saverVars,
                   extVars>>

\* `finally: self.after_train()`, then the pending exception (if any) goes on
\* to the caller; an exception leaving the finally block replaces it.
Finally ==
    /\ pc = "finally"
    /\ \E outs \in [1..NumCallbacks -> AfterTrainOutcomes] :
          LET r == AfterTrainFanOut(outs)
          IN  /\ Emit("after_train", <<>>, r)
              /\ result' = IF r.exc # "none" THEN r.exc
                           ELSE IF exc # "none" THEN exc ELSE "returned"
    /\ pc' = "done"
    /\ UNCHANGED <<impl, steps_per_epoch, starting_epoch, max_epoch, assigned, epoch_num,
                   global_step, local_step, consumed, feed_dict, output_dict, exc, caught,
                   saverVars,
                   extVars>>

\* The saver is not part of the loop's specification.
InitSaverIdle ==
    /\ max_to_keep = 0
    /\ disk = <<>>
    /\ clock = 0
    /\ filenames = <<>>
    /\ saver_pc = "idle"
    /\ saver_exc = "none"
    /\ last_call = <<>>

\* The loop is not part of the saver's specification; global_step is the
\* trainer's counter the saver reads.
InitSchedIdle ==
    /\ impl = "train"
    /\ steps_per_epoch = 1
    /\ starting_epoch = 1
    /\ max_epoch = 1
    /\ assigned = {"epoch_num", "global_step", "local_step"}
    /\ epoch_num = 0
    /\ global_step = 0
    /\ local_step = 0
    /\ pc = "idle"
    /\ consumed = 0
    /\ feed_dict = <<>>
    /\ output_dict = <<>>
    /\ exc = "none"
    /\ caught = "none"
    /\ result = "running"
    /\ events = <<>>

\* ModelSaver.__init__, on a directory that may already hold files (the other
\* saver's file, which the scan skips, is either absent or has time stamp 1).
InitSaver ==
    /\ max_to_keep \in 0..MaxToKeep
    /\ disk \in {d \in [FileNames -> 0..MaxInitMtime] :
                    /\ Cardinality({n \in FileNames : d[n] # 0}) <= MaxPreexisting
                    /\ d[<<"max-", 1>>] <= 1}
    /\ clock = MaxInitMtime
    /\ filenames = <<>>
    /\ saver_pc = "new"
    /\ saver_exc = "none"
    /\ last_call = [op |-> "none", save |-> "none", heap_before |-> <<>>,
                    disk_before |-> disk, evictions |-> <<>>]

\* ModelSaver._before_train: reset the heap, then add every matching file of
\* the directory.
SaverBeforeTrain ==
    /\ saver_pc \in {"new", "ready"}
    /\ \E listing \in Listings(disk) :
          LET r == Scan(listing, <<>>, disk, max_to_keep, <<>>)
          IN  /\ filenames' = r.heap
              /\ disk' = r.disk
              /\ saver_exc' = r.exc
              /\ saver_pc' = IF r.exc = "none" THEN "ready" ELSE "failed"
              /\ last_call' = [op |-> "before_train", save |-> "none", heap_before |-> <<>>,
                               disk_before |-> disk, evictions |-> r.evictions]
    /\ UNCHANGED <<max_to_keep, clock, schedVars, extVars>>

\* ModelSaver._trigger_epoch / _trigger, after the trainer has advanced to
\* global_step `step`: torch.save inside try/except (OSError, IOError), then
\* _add_checkpoint(save_path) in either case.
SaverTrigger ==
    /\ saver_pc = "ready"
    /\ \E step \in {n \in StepNames : n >= global_step},
          now \in {t \in {clock, clock + 1} : t <= MaxClock},
          out \in SaveOutcomes :
          LET save_path == SavePath(step)
              written == IF out \in {"ok", "OSErrorPartial"}
                         THEN [disk EXCEPT ![save_path] = now] ELSE disk
              r == AddCheckpoint(filenames, written, save_path, max_to_keep)
          IN  /\ global_step' = step
              /\ clock' = now
              /\ filenames' = r.heap
              /\ disk' = r.disk
              /\ saver_exc' = r.exc
              /\ saver_pc' = IF r.exc = "none" THEN "ready" ELSE "failed"
              /\ last_call' = [op |-> "trigger", save |-> out, heap_before |-> filenames,
                               disk_before |-> disk, evictions |-> r.evictions]
    /\ UNCHANGED <<max_to_keep, impl, steps_per_epoch, starting_epoch, max_epoch, assigned,
                   epoch_num, local_step, pc, consumed, feed_dict, output_dict, exc, caught,
                   result, events, extVars>>

Init == InitSched /\ InitSaverIdle /\ IdleExcept("loop")

Next ==
    \/ Begin
    \/ BeforeTrain
    \/ TrainEpoch
    \/ BaseEpoch
    \/ TrainBeforeStep
    \/ BaseBeforeStep
    \/ RunStep
    \/ AfterStep
    \/ TriggerStep
    \/ AfterEpoch
    \/ TriggerEpoch
    \/ Finally

Spec == Init /\ [][Next]_vars

\* ------------------------------------------------------------ properties of the loop
AllMembers == [i \in 1..NumCallbacks |-> i]

EventsNamed(name) == {i \in DOMAIN events : events[i].name = name}

\* The notifications that belong to an epoch.
EpochNotifications ==
    {"before_epoch", "before_step", "after_step", "trigger_step", "after_epoch",
     "trigger_epoch"}

\* The notifications the group fans out inside the try body.
LoopNotifications == EpochNotifications \cup {"before_train"}

\* C1: at every point a hook can observe once a step's counters have been
\* updated, global_step = (epoch_num - 1) * steps_per_epoch + local_step.
C1_GlobalStepFormula ==
    \A i \in DOMAIN events :
        (\E j \in 1..i : events[j].name = "before_step")
        => events[i].global_step
               = (events[i].epoch_num - 1) * steps_per_epoch + events[i].local_step

\* C2: after_train is emitted to the group exactly once in every run, however
\* the run ends, and after every other notification of the run.
C2_AfterTrainExactlyOnce ==
    /\ Cardinality(EventsNamed("after_train")) <= 1
    /\ \A i \in EventsNamed("after_train") : i = Len(events)
    /\ pc = "done" => /\ Cardinality(EventsNamed("before_train")) = 1
                      /\ Cardinality(EventsNamed("after_train")) = 1

\* A run that an exception ended in the middle of an epoch, after_train emitted.
C2_Witness ==
    /\ pc = "done"
    /\ result = "Exception"
    /\ Len(events) >= 2
    /\ events[Len(events)].name = "after_train"
    /\ events[Len(events) - 1].name = "after_step"
    /\ events[Len(events) - 1].raised = "Exception"

\* The notification sequence C3 describes, for the run's parameters.
ExpectedStep(e, k) ==
    << [name |-> "before_step", args |-> <<FeedDict(k)>>,
        counts |-> <<k, (e - 1) * steps_per_epoch + k>>],
       [name |-> "run_step", args |-> <<FeedDict(k)>>, counts |-> <<>>],
       [name |-> "after_step", args |-> <<FeedDict(k), OutputDict(e, k)>>, counts |-> <<>>],
       [name |-> "trigger_step", args |-> <<>>, counts |-> <<>>] >>

RECURSIVE ExpectedSteps(_, _)
ExpectedSteps(e, k) ==
    IF k > steps_per_epoch THEN <<>> ELSE ExpectedStep(e, k) \o ExpectedSteps(e, k + 1)

RECURSIVE ExpectedEpochs(_)
ExpectedEpochs(e) ==
    IF e > max_epoch THEN <<>>
    ELSE <<[name |-> "before_epoch", args |-> <<>>, counts |-> <<>>]>>
         \o ExpectedSteps(e, 1)
         \o <<[name |-> "after_epoch", args |-> <<>>, counts |-> <<>>],
              [name |-> "trigger_epoch", args |-> <<>>, counts |-> <<>>]>>
         \o ExpectedEpochs(e + 1)

ExpectedRun ==
    <<[name |-> "before_train", args |-> <<>>, counts |-> <<>>]>>
    \o ExpectedEpochs(starting_epoch)
    \o <<[name |-> "after_train", args |-> <<>>, counts |-> <<>>]>>

ObservedRun ==
    [i \in DOMAIN events |->
        [name |-> events[i].name, args |-> events[i].args,
         counts |-> IF events[i].name = "before_step"
                    THEN <<events[i].local_step, events[i].global_step>> ELSE <<>>]]

NoException == \A i \in DOMAIN events : events[i].raised = "none" /\ events[i].logged = <<>>

\* C3: in a run with no exception the notifications are before_train, then per
\* epoch before_epoch, per item before_step(item), run_step, after_step(item,
\* output), trigger_step, then after_epoch, trigger_epoch; local_step and
\* global_step already count the step at its before_step.
C3_NotificationSequence ==
    (pc = "done" /\ NoException) => ObservedRun = ExpectedRun

\* C4: StopTraining raised by a hook during a notification of epoch e: nothing
\* but after_train follows, epoch_num stays e, every member gets after_train,
\* and the entry point returns normally.
C4_StopTraining ==
    \A i \in DOMAIN events :
        (events[i].name \in EpochNotifications /\ events[i].raised = "StopTraining")
        => /\ \A j \in (i + 1)..Len(events) : events[j].name = "after_train"
           /\ epoch_num = events[i].epoch_num
           /\ result \in {"running", "returned"}
           /\ pc = "done" => /\ result = "returned"
                             /\ events[Len(events)].name = "after_train"
                             /\ events[Len(events)].got = AllMembers

\* StopTraining out of after_step in the last step of epoch 2 of a 3-epoch run.
C4_Witness ==
    /\ pc = "done"
    /\ max_epoch = 3
    /\ starting_epoch = 1
    /\ steps_per_epoch = 2
    /\ \E i \in DOMAIN events :
          /\ events[i].name = "after_step"
          /\ events[i].raised = "StopTraining"
          /\ events[i].epoch_num = 2
          /\ i = Len(events) - 1

\* C5: an ordinary exception out of one member's after_train does not keep any
\* other member from receiving after_train exactly once, and does not reach
\* the caller.
C5_AfterTrainIsolation ==
    \A i \in EventsNamed("after_train") :
        /\ events[i].got = AllMembers
        /\ events[i].raised = "none"
        /\ (pc = "done" /\ exc = "none") => result = "returned"

\* The first member's after_train raised, the run had ended normally.
C5_Witness ==
    /\ pc = "done"
    /\ exc = "none"
    /\ caught = "none"
    /\ \E i \in EventsNamed("after_train") :
          /\ events[i].logged # <<>>
          /\ events[i].logged[1] = 1
          /\ events[i].got = AllMembers

\* C6: an exception other than StopTraining out of a hook during a notification
\* other than after_train: the members after the raising one do not receive
\* the notification, only after_train follows, and the caller gets the exception.
C6_HookFailurePropagates ==
    \A i \in DOMAIN events :
        (events[i].name \in LoopNotifications
            /\ events[i].raised \notin {"none", "StopTraining"})
        => /\ events[i].logged = <<>>
           /\ Len(events[i].got) <= NumCallbacks
           /\ \A m \in 1..Len(events[i].got) : events[i].got[m] = m
           /\ \A j \in (i + 1)..Len(events) : events[j].name = "after_train"
           /\ exc = events[i].raised
           /\ pc = "done" => result = events[i].raised

\* The first member raised during trigger_epoch; the second never got it.
C6_Witness ==
    /\ pc = "done"
    /\ result = "Exception"
    /\ \E i \in EventsNamed("trigger_epoch") :
          /\ events[i].raised = "Exception"
          /\ events[i].got = <<1>>

\* C7: KeyboardInterrupt during the loop: no further step or epoch notification,
\* after_train is still emitted, and the interrupt is re-raised to the caller.
C7_InterruptReraised ==
    \A i \in DOMAIN events :
        (events[i].name # "after_train" /\ events[i].raised = "KeyboardInterrupt")
        => /\ \A j \in (i + 1)..Len(events) : events[j].name = "after_train"
           /\ pc \in {"finally", "done"}
           /\ pc = "done" => /\ events[Len(events)].name = "after_train"
                             /\ result = "KeyboardInterrupt"

\* The interrupt arrived while the step function of the base loop was running.
C7_Witness ==
    /\ impl = "base"
    /\ pc = "done"
    /\ result = "KeyboardInterrupt"
    /\ \E i \in EventsNamed("run_step") : events[i].raised = "KeyboardInterrupt"

\* C18: at every point a callback can observe after initialisation,
\* 0 <= local_step <= steps_per_epoch and
\* starting_epoch - 1 <= epoch_num <= max_epoch.
C18_CounterRanges ==
    \A i \in DOMAIN events :
        /\ events[i].has_local_step =>
               (0 <= events[i].local_step /\ events[i].local_step <= steps_per_epoch)
        /\ starting_epoch - 1 <= events[i].epoch_num
        /\ events[i].epoch_num <= max_epoch

\* The loop, its statements executed one after another without halting midway.
SpecLive == Init /\ [][Next]_vars /\ WF_vars(Next)

\* The epochs of a run that has ended are complete and as many as the range.
RanAllEpochs ==
    /\ \A name \in {"before_epoch", "after_epoch", "trigger_epoch"} :
           Cardinality(EventsNamed(name)) = max_epoch - starting_epoch + 1
    /\ Cardinality(EventsNamed("before_step")) =
           (max_epoch - starting_epoch + 1) * steps_per_epoch
    /\ epoch_num = max_epoch
    /\ events[Len(events)].name = "after_train"

\* C34: the loop terminates; when max_epoch >= starting_epoch - 1 and neither
\* a hook nor the step function raises, it has then run exactly
\* max_epoch - starting_epoch + 1 epochs, epoch_num is max_epoch, and
\* after_train is the last notification.
C34_Terminates ==
    <>(/\ pc = "done"
       /\ (NoException /\ max_epoch >= starting_epoch - 1) => RanAllEpochs)

\* A run from epoch 2 to epoch 3 over a dataflow of two items has ended
\* without an exception, after two epochs.
C34_Witness ==
    /\ pc = "done" /\ NoException
    /\ starting_epoch = 2 /\ max_epoch = 3 /\ steps_per_epoch = 2
    /\ RanAllEpochs

\* The notifications of a step, the step function's call included.
StepNotifications == {"before_step", "run_step", "after_step", "trigger_step"}

\* C40: over an empty dataflow (steps_per_epoch = 0) no step notification is
\* emitted, global_step keeps its initial value for the whole run, every
\* before_epoch that returns is followed by after_epoch and every after_epoch
\* that returns by trigger_epoch of the same epoch, and a run that nothing
\* interrupts has one such triple for every epoch of starting_epoch..max_epoch.
C40_EmptyEpochs ==
    steps_per_epoch = 0 =>
        /\ \A i \in DOMAIN events :
               /\ events[i].name \notin StepNotifications
               /\ events[i].global_step = 0
               /\ (i < Len(events) /\ events[i].raised = "none") =>
                      /\ events[i].name = "before_epoch" =>
                             /\ events[i + 1].name = "after_epoch"
                             /\ events[i + 1].epoch_num = events[i].epoch_num
                      /\ events[i].name = "after_epoch" =>
                             /\ events[i + 1].name = "trigger_epoch"
                             /\ events[i + 1].epoch_num = events[i].epoch_num
        /\ global_step = 0
        /\ (pc = "done" /\ NoException) =>
               \A e \in starting_epoch..max_epoch :
                   \E i \in DOMAIN events :
                       /\ i + 2 <= Len(events)
                       /\ events[i].name = "before_epoch" /\ events[i].epoch_num = e
                       /\ events[i + 1].name = "after_epoch"
                       /\ events[i + 2].name = "trigger_epoch"

\* A run of two epochs over an empty dataflow has ended: eight notifications.
C40_Witness ==
    /\ pc = "done" /\ NoException
    /\ steps_per_epoch = 0 /\ starting_epoch = 1 /\ max_epoch = 2
    /\ Len(events) = 8
    /\ events[2].name = "before_epoch" /\ events[3].name = "after_epoch"
    /\ events[4].name = "trigger_epoch" /\ events[5].name = "before_epoch"

\* ------------------------------------------------------------ the saver's specification
NextSaver ==
    \/ SaverBeforeTrain
    \/ SaverTrigger

InitS == InitSchedIdle /\ InitSaver /\ IdleExcept("saver")

SpecSaver == InitS /\ [][NextSaver]_vars

\* ------------------------------------------------------------ properties of ModelSaver
HeldRecords(heap) == {heap[i] : i \in DOMAIN heap}

\* C8: the retention heap holds at most max_to_keep records once before_train
\* has run and after every trigger, whatever files the directory held.
C8_RetentionBound ==
    saver_pc \in {"ready", "failed"} => Len(filenames) <= max_to_keep

\* A trigger on a full heap, in a directory that held files from the start.
C8_Witness ==
    /\ last_call.op = "trigger"
    /\ last_call.save = "ok"
    /\ max_to_keep >= 1
    /\ Len(last_call.heap_before) = max_to_keep
    /\ Len(filenames) = max_to_keep
    /\ last_call.evictions # <<>>

\* C9: every eviction removes the record with the smallest (mtime, path) key
\* among the records held at that moment, the one just pushed included, and
\* the file of that record is gone afterwards.
C9_EvictsSmallest ==
    \A i \in DOMAIN last_call.evictions :
        LET ev == last_call.evictions[i]
        IN  /\ ev.popped \in HeldRecords(ev.held)
            /\ \A rec \in HeldRecords(ev.held) : ~TupleLess(rec, ev.popped)
            /\ disk[ev.popped[2]] = 0

\* An eviction decided by the path: step-10.pth goes before step-2.pth of the
\* same modification time, with a third record held.
C9_Witness ==
    /\ last_call.op = "trigger"
    /\ \E i \in DOMAIN last_call.evictions :
          LET ev == last_call.evictions[i]
          IN  /\ Len(ev.held) = 3
              /\ ev.popped[2] = <<"step-", 10>>
              /\ ev.existed
              /\ \E rec \in HeldRecords(ev.held) :
                    rec[1] = ev.popped[1] /\ rec[2] = <<"step-", 2>>

\* C10: a trigger whose torch.save failed with an I/O error lets no exception
\* out, adds no record, evicts no record and deletes no file.
C10_FailedSaveChangesNothing ==
    (last_call.op = "trigger" /\ last_call.save # "ok")
    => /\ saver_exc = "none"
       /\ filenames = last_call.heap_before
       /\ last_call.evictions = <<>>
       /\ \A n \in FileNames : last_call.disk_before[n] # 0 => disk[n] # 0

\* C37: after any sequence of triggers, two at the same global_step included,
\* no checkpoint path is held by more than one retention record and every
\* path held names a file that exists in the directory.
C37_RecordsDistinctAndPresent ==
    (last_call.op = "trigger" /\ saver_exc = "none") =>
        /\ \A i, j \in DOMAIN filenames :
               i # j => filenames[i][2] # filenames[j][2]
        /\ \A i \in DOMAIN filenames : disk[filenames[i][2]] # 0

\* ------------------------------------------------------------ MinSaver / MaxSaver
\* The values the monitored scalar takes.
Values == 1..MaxValue

\* monitors.add_scalar(name, value) while the trainer is at step g: the series
\* of that name gets the entry (g, value).
AddScalar(series, g, value) == Append(series, <<g, value>>)

\* Mutant of Improves: every value replaces the best.
ImprovesAlways(reverse, value, best) == TRUE

\* Mutant of Improves: a tie counts as an improvement.
ImprovesOrTies(reverse, value, best) ==
    \/ best = <<>>
    \/ IF reverse THEN value >= best[2] ELSE value <= best[2]

\* `self.best is None or (value > self.best[1] if self.reverse else value < self.best[1])`
Improves(reverse, value, best) ==
    \/ best = <<>>
    \/ IF reverse THEN value > best[2] ELSE value < best[2]

\* One call of MinSaver.trigger recorded for the properties: the trainer's
\* step, whether the newest value of the key passed both early returns, that
\* value, the outcome of torch.save ("none" if it was not called), the best
\* tracker before and after, the values earlier calls were fed, and the
\* exception the call let out.
TriggerCall(g, fed, value, save, before, after, earlier) ==
    [step |-> g, fed |-> fed, value |-> value, save |-> save,
     best_before |-> before, best_after |-> after, earlier |-> earlier,
     raised |-> "none"]

\* No call of trigger yet.
NoCall == TriggerCall(0, FALSE, 0, "none", <<>>, <<>>, {})

\* MinSaver.trigger with the trainer at step g; `out` is what torch.save does
\* if it is called. ms.latest is get_history(key)[-1] (<<>>: KeyError or
\* IndexError).
MinSaverTrigger(ms, g, out) ==
    IF ms.latest = <<>>
    THEN [ms EXCEPT !.last = TriggerCall(g, FALSE, 0, "none", ms.best, ms.best, ms.fed)]
    ELSE LET step  == ms.latest[1]
             value == ms.latest[2]
         IN  IF step # g
             THEN [ms EXCEPT !.last = TriggerCall(g, FALSE, value, "none", ms.best,
                                                  ms.best, ms.fed)]
             ELSE IF Improves(ms.reverse, value, ms.best)
             THEN \* self.best is assigned before the try block of torch.save
                  [ms EXCEPT !.best = <<step, value>>,
                             !.attempts = Append(@, g),
                             !.file = IF out = "ok" THEN <<g>> ELSE @,
                             !.extreme = AddScalar(@, g, value),
                             !.fed = @ \cup {value},
                             !.last = TriggerCall(g, TRUE, value, out, ms.best,
                                                  <<step, value>>, ms.fed)]
             ELSE [ms EXCEPT !.extreme = AddScalar(@, g, ms.best[2]),
                             !.fed = @ \cup {value},
                             !.last = TriggerCall(g, TRUE, value, "none", ms.best,
                                                  ms.best, ms.fed)]

\* MinSaver.__init__ (reverse = False) and MaxSaver.__init__ (reverse = True):
\* self.best = None; nothing has been recorded or saved yet.
InitMinSaver ==
    /\ minsaver \in {[NoMinSaver EXCEPT !.reverse = r] : r \in BOOLEAN}

\* The trainer completes a step.
MinSaverAdvance ==
    /\ global_step < MaxSaverSteps
    /\ global_step' = global_step + 1
    /\ UNCHANGED <<impl, steps_per_epoch, starting_epoch, max_epoch, assigned, epoch_num,
                   local_step, pc, consumed, feed_dict, output_dict, exc, caught, result,
                   events, saverVars, extVars>>

\* Some callback records the monitored scalar at the current step (once a step,
\* and before the saver's trigger of that step).
MinSaverRecord ==
    /\ global_step >= 1
    /\ IF minsaver.latest = <<>> THEN TRUE ELSE minsaver.latest[1] < global_step
    /\ minsaver.last.step < global_step
    /\ \E v \in Values :
          minsaver' = [minsaver EXCEPT !.latest = <<global_step, v>>]
    /\ UNCHANGED <<schedVars, saverVars, exceptMinsaver>>

\* MinSaver.trigger_epoch / trigger, at most once a step.
MinSaverTriggers ==
    /\ IF minsaver.last = NoCall THEN TRUE ELSE minsaver.last.step < global_step
    /\ \E out \in {"ok", "OSError"} :
          minsaver' = MinSaverTrigger(minsaver, global_step, out)
    /\ UNCHANGED <<schedVars, saverVars, exceptMinsaver>>

NextMinSaver ==
    \/ MinSaverAdvance
    \/ MinSaverRecord
    \/ MinSaverTriggers

InitM == InitSchedIdle /\ InitSaverIdle /\ InitMinSaver /\ IdleExcept("minsaver")

SpecMinSaver == InitM /\ [][NextMinSaver]_vars

\* ------------------------------------------------------------ properties of MinSaver / MaxSaver
\* value a is strictly better than value b for this saver.
Better(a, b) == IF minsaver.reverse THEN a > b ELSE a < b

\* The best of a non-empty set of values.
BestOf(vs) == CHOOSE v \in vs : \A w \in vs : ~Better(w, v)

\* C11: when persisting fails with an I/O error during a trigger on an
\* improving value, the best tracker keeps the value it had before the trigger,
\* and the error does not propagate.
C11_FailedSaveKeepsBest ==
    minsaver.last.save = "OSError" =>
        /\ minsaver.last.best_after = minsaver.last.best_before
        /\ minsaver.last.raised = "none"

\* C12: fed one value per trigger, recorded at the current global step, the
\* saver hands the state to torch.save at exactly the triggers whose value is
\* strictly better than every earlier value (the first one included), and at
\* every trigger the running best is recorded under key + '/max' (or '/min').
C12_SavesExactlyAtImprovements ==
    LET c == minsaver.last
        series == minsaver.extreme
    IN  /\ c.fed =>
              /\ (c.save # "none") <=> \A v \in c.earlier : Better(c.value, v)
              /\ series # <<>>
              /\ series[Len(series)] = <<c.step, BestOf(c.earlier \cup {c.value})>>
              /\ c.save = "ok" => minsaver.file = <<c.step>>
        \* torch.save was called at exactly the steps where the recorded series
        \* shows a value strictly better than all before it
        /\ {minsaver.attempts[n] : n \in DOMAIN minsaver.attempts} =
               {series[n][1] : n \in {m \in DOMAIN series :
                                         \A k \in 1..(m - 1) : Better(series[m][2], series[k][2])}}

\* A MaxSaver fed the values 1, 3, 2, 4 at steps 1 to 4 has called torch.save at
\* steps 1, 2 and 4 and recorded the series 1, 3, 3, 4.
C12_Witness ==
    /\ minsaver.reverse
    /\ minsaver.attempts = <<1, 2, 4>>
    /\ minsaver.extreme = <<<<1, 1>>, <<2, 3>>, <<3, 3>>, <<4, 4>>>>
    /\ minsaver.fed = {1, 2, 3, 4}
    /\ minsaver.file = <<4>>

\* The newest value of the key is missing or was recorded at another step.
Stale ==
    IF minsaver.latest = <<>> THEN TRUE ELSE minsaver.latest[1] # global_step

\* C38: across the triggers of a MaxSaver (MinSaver) the best value never
\* decreases (increases) and is one of the values the triggers compared, and
\* a trigger that finds the key's newest value missing or recorded at another
\* step changes neither best, nor the saved file, nor the derived series.
C38_BestMonotone ==
    [][/\ minsaver.best # <<>> =>
              /\ minsaver'.best # <<>>
              /\ ~Better(minsaver.best[2], minsaver'.best[2])
       /\ minsaver'.best # <<>> => minsaver'.best[2] \in minsaver'.fed
       /\ (minsaver'.last # minsaver.last /\ Stale) =>
              /\ minsaver'.best = minsaver.best
              /\ minsaver'.file = minsaver.file
              /\ minsaver'.extreme = minsaver.extreme
              /\ minsaver'.attempts = minsaver.attempts]_vars

\* A MaxSaver whose best is 3 since step 1 was triggered with the smaller
\* value 1 at step 2 and, at step 3, with nothing recorded since step 2.
C38_Witness ==
    /\ minsaver.reverse
    /\ global_step = 3
    /\ minsaver.last.step = 3 /\ ~minsaver.last.fed
    /\ minsaver.latest = <<2, 1>>
    /\ minsaver.best = <<1, 3>>
    /\ minsaver.file = <<1>>
    /\ minsaver.extreme = <<<<1, 3>>, <<2, 3>>>>

\* ------------------------------------------------------------ wrapper callbacks
\* What a handler of the wrapper does: the methods of the inner callback it
\* calls, in order, the exception it lets out, and self._enabled afterwards.
Handled(h, fwd) ==
    [fwd |-> fwd, raised |-> "none", has_enabled |-> h.has_enabled, enabled |-> h.enabled]

\* Mutant of ProxyCallback_handle: trigger_epoch reaches the inner callback as
\* trigger().
ProxyCallback_handle_as_trigger(h, name) ==
    Handled(h, IF name = "trigger_epoch" THEN <<"trigger">> ELSE <<name>>)

\* ProxyCallback._before_train ... _trigger: the same method of the inner callback.
ProxyCallback_handle(h, name) == Handled(h, <<name>>)

\* Mutant of PeriodicTrigger_before_train: trigger() comes first.
PeriodicTrigger_before_train_late(h) ==
    Handled(h, (IF h.do_before_train THEN <<"trigger">> ELSE <<>>) \o <<"before_train">>)

\* PeriodicTrigger._before_train
PeriodicTrigger_before_train(h) ==
    Handled(h, <<"before_train">> \o (IF h.do_before_train THEN <<"trigger">> ELSE <<>>))

\* Mutant of PeriodicTrigger_trigger_epoch: trigger_epoch is forwarded as
\* trigger_step is.
PeriodicTrigger_trigger_epoch_forwarding(h, e) ==
    IF h.epoch_k = <<>> THEN Handled(h, <<"trigger_epoch">>)
    ELSE IF e % h.epoch_k[1] = 0 THEN Handled(h, <<"trigger_epoch", "trigger">>)
    ELSE Handled(h, <<"trigger_epoch">>)

\* PeriodicTrigger._trigger_epoch, the trainer being in epoch e
PeriodicTrigger_trigger_epoch(h, e) ==
    IF h.epoch_k = <<>> THEN Handled(h, <<>>)
    ELSE IF e % h.epoch_k[1] = 0 THEN Handled(h, <<"trigger">>)
    ELSE Handled(h, <<>>)

\* Mutant of PeriodicTrigger_trigger_step: the period is counted from the step to come.
PeriodicTrigger_trigger_step_ahead(h, g) ==
    IF h.step_k = <<>> THEN Handled(h, <<"trigger_step">>)
    ELSE IF (g + 1) % h.step_k[1] = 0 THEN Handled(h, <<"trigger_step", "trigger">>)
    ELSE Handled(h, <<"trigger_step">>)

\* PeriodicTrigger._trigger_step, the trainer being at global step g
PeriodicTrigger_trigger_step(h, g) ==
    IF h.step_k = <<>> THEN Handled(h, <<"trigger_step">>)
    ELSE IF g % h.step_k[1] = 0 THEN Handled(h, <<"trigger_step", "trigger">>)
    ELSE Handled(h, <<"trigger_step">>)

\* EnableCallbackIf._before_step; p is what the predicate returns now
EnableCallbackIf_before_step(h, p) ==
    [fwd |-> IF p THEN <<"before_step">> ELSE <<>>, raised |-> "none",
     has_enabled |-> TRUE, enabled |-> p]

\* Mutant of EnableCallbackIf_after_step: the predicate is asked again.
EnableCallbackIf_after_step_asks(h, p) ==
    Handled(h, IF p THEN <<"after_step">> ELSE <<>>)

\* EnableCallbackIf._after_step: `if self._enabled` (AttributeError while the
\* attribute has never been assigned); the predicate is not called
EnableCallbackIf_after_step(h, p) ==
    IF ~h.has_enabled
    THEN [fwd |-> <<>>, raised |-> "AttributeError", has_enabled |-> FALSE, enabled |-> FALSE]
    ELSE Handled(h, IF h.enabled THEN <<"after_step">> ELSE <<>>)

\* Mutant of EnableCallbackIf_gated: what the predicate returned at the last
\* before_step decides.
EnableCallbackIf_gated_latched(h, name, p) ==
    Handled(h, IF h.has_enabled /\ h.enabled THEN <<name>> ELSE <<>>)

\* EnableCallbackIf._before_epoch, _after_epoch, _trigger_epoch, _trigger_step
EnableCallbackIf_gated(h, name, p) == Handled(h, IF p THEN <<name>> ELSE <<>>)

\* PeriodicCallback.predicate, the trainer being in epoch e at local step l and
\* global step g (the gated handlers run once local_step has been assigned)
PeriodicCallback_predicate(h, e, l, g) ==
    IF (IF h.step_k = <<>> THEN FALSE ELSE g % h.step_k[1] = 0) THEN TRUE
    ELSE IF (IF h.epoch_k = <<>> THEN FALSE ELSE e % h.epoch_k[1] = 0) THEN TRUE
    ELSE IF h.epoch_k # <<>> THEN l = steps_per_epoch - 1 /\ e = max_epoch
    ELSE FALSE

\* Mutant of LambdaCallback_handle: the method of Callback runs after the handler.
LambdaCallback_handle_and_default(h, name) ==
    Handled(h, (IF name \in h.bound THEN <<name>> ELSE <<>>)
               \o (IF name = "trigger_epoch" /\ "trigger" \in h.bound
                   THEN <<"trigger">> ELSE <<>>))

\* Mutant of LambdaCallback_handle: Callback._trigger_epoch does nothing.
LambdaCallback_handle_no_default(h, name) ==
    Handled(h, IF name \in h.bound THEN <<name>> ELSE <<>>)

\* LambdaCallback._setup_trainer ... _trigger: the handler given for the
\* notification, else the method of Callback, of which _trigger_epoch calls
\* self._trigger() and the others do nothing.
LambdaCallback_handle(h, name) ==
    IF name \in h.bound THEN Handled(h, <<name>>)
    ELSE IF name = "trigger_epoch" /\ "trigger" \in h.bound THEN Handled(h, <<"trigger">>)
    ELSE Handled(h, <<>>)

\* The object's handler of notification `name`, the trainer being in epoch e
\* at global step g, the predicate returning p if called now.
HookHandle(h, name, e, g, p) ==
    CASE h.kind = "PeriodicTrigger" ->
           CASE name = "before_train"  -> PeriodicTrigger_before_train(h)
             [] name = "trigger_epoch" -> PeriodicTrigger_trigger_epoch(h, e)
             [] name = "trigger_step"  -> PeriodicTrigger_trigger_step(h, g)
             [] OTHER                  -> ProxyCallback_handle(h, name)
      [] h.kind \in {"EnableCallbackIf", "PeriodicCallback"} ->
           CASE name = "before_step"   -> EnableCallbackIf_before_step(h, p)
             [] name = "after_step"    -> EnableCallbackIf_after_step(h, p)
             [] name \in {"before_epoch", "after_epoch", "trigger_epoch", "trigger_step"}
                                       -> EnableCallbackIf_gated(h, name, p)
             [] OTHER                  -> ProxyCallback_handle(h, name)
      [] h.kind = "LambdaCallback"     -> LambdaCallback_handle(h, name)
      [] OTHER                         -> ProxyCallback_handle(h, name)

\* The periods a PeriodicTrigger or a PeriodicCallback is built with.
Periods == {<<>>} \cup {<<k>> : k \in 1..MaxPeriod}

\* A constructor call: the class, the periods and before_train it was given
\* (<<>> for None), and the chief_only of the callback it was given.
Ctor(cls, sk, ek, bt, co) ==
    [cls |-> cls, every_k_steps |-> sk, every_k_epochs |-> ek, before_train |-> bt,
     chief_only |-> co]

\* A constructor that raised AssertionError leaves no object.
Failed(c) == [NoHook EXCEPT !.kind = "AssertionError", !.ctor = c]

\* ProxyCallback.__init__ on a Callback whose chief_only is c.chief_only
ProxyCallback_init(c) ==
    [NoHook EXCEPT !.kind = c.cls, !.chief_only = c.chief_only,
                   !.inner_chief_only = c.chief_only, !.ctor = c]

\* Mutant of PeriodicTrigger_init: before_train does not excuse missing periods.
PeriodicTrigger_init_strict(sk, ek, bt) ==
    LET c == Ctor("PeriodicTrigger", sk, ek, bt, TRUE)
    IN  IF sk = <<>> /\ ek = <<>> THEN Failed(c)
        ELSE [ProxyCallback_init(c) EXCEPT
                  !.step_k = sk, !.epoch_k = ek, !.do_before_train = bt]

\* PeriodicTrigger.__init__(callback, every_k_steps, every_k_epochs, before_train)
PeriodicTrigger_init(sk, ek, bt) ==
    LET c == Ctor("PeriodicTrigger", sk, ek, bt, TRUE)
    IN  IF ~bt /\ sk = <<>> /\ ek = <<>> THEN Failed(c)
        ELSE [ProxyCallback_init(c) EXCEPT
                  !.step_k = sk, !.epoch_k = ek, !.do_before_train = bt]

\* EnableCallbackIf.__init__(callback, predicate): _enabled is not assigned
EnableCallbackIf_init == ProxyCallback_init(Ctor("EnableCallbackIf", <<>>, <<>>, FALSE, TRUE))

\* PeriodicCallback.__init__(callback, every_k_steps, every_k_epochs)
PeriodicCallback_init(sk, ek) ==
    LET c == Ctor("PeriodicCallback", sk, ek, FALSE, TRUE)
    IN  IF sk = <<>> /\ ek = <<>> THEN Failed(c)
        ELSE [ProxyCallback_init(c) EXCEPT !.step_k = sk, !.epoch_k = ek]

\* LambdaCallback.__init__ with handlers for the notifications in b
LambdaCallback_init(b) ==
    [NoHook EXCEPT !.kind = "LambdaCallback", !.bound = b,
                   !.ctor = Ctor("LambdaCallback", <<>>, <<>>, FALSE, TRUE)]

\* The arguments of each call in fwd: a ProxyCallback handler passes its own
\* arguments on (for setup_trainer self.trainer, which Callback.setup_trainer
\* has just assigned) and calls trigger() without any; a LambdaCallback gives
\* a handler itself, then the arguments of the handler's method.
PassedOn(h, name, args, fwd) ==
    [k \in DOMAIN fwd |->
        IF h.kind = "LambdaCallback"
        THEN <<"self">> \o (IF fwd[k] = name /\ name # "setup_trainer" THEN args ELSE <<>>)
        ELSE IF fwd[k] = name THEN args ELSE <<>>]

\* A PeriodicTrigger, a PeriodicCallback or an EnableCallbackIf whose
\* construction succeeded, registered with a trainer that starts at epoch 1;
\* an EnableCallbackIf with a free predicate is followed through one epoch.
InitHook ==
    /\ hook \in {PeriodicTrigger_init(sk, ek, bt) :
                    sk \in Periods, ek \in Periods, bt \in BOOLEAN}
                \cup {PeriodicCallback_init(sk, ek) : sk \in Periods, ek \in Periods}
                \cup {EnableCallbackIf_init}
    /\ hook.kind # "AssertionError"
    /\ starting_epoch = 1
    /\ steps_per_epoch >= 1
    /\ max_epoch >= 1
    /\ hook.kind = "EnableCallbackIf" => max_epoch = 1

\* No handler and no step function has raised.
Quiet ==
    IF events = <<>> THEN TRUE
    ELSE /\ events[Len(events)].raised = "none"
         /\ events[Len(events)].logged = <<>>

\* The trainer's counters as a handler finds them through self.trainer.
Counters ==
    [epoch_num |-> epoch_num, global_step |-> global_step, local_step |-> local_step,
     steps_per_epoch |-> steps_per_epoch, starting_epoch |-> starting_epoch,
     max_epoch |-> max_epoch]

\* Mutant of Callback_leaves: the handler counts the step itself.
Callback_leaves_counting(c) == [c EXCEPT !.global_step = @ + 1]

\* The trainer's counters as the shipped handlers leave them: callbacks/*.py
\* read self.trainer.epoch_num, .global_step, .local_step, .steps_per_epoch and
\* .max_epoch (trigger.py 42, 49, 137-143, checkpoint.py 42, 102, tracker.py
\* 124, 136, progress.py, writer.py) and none holds an assignment to them.
Callback_leaves(c) == c

\* The trainer goes on once the wrapper has handled what was emitted, and no
\* callback raises.
HookLoop ==
    /\ hook.delivered = Len(events)
    /\ Next
    /\ Quiet'

\* The group calls the wrapper for the next emitted notification (the step
\* function is not a notification); the predicate of an EnableCallbackIf may
\* return anything, that of a PeriodicCallback reads the trainer's counters.
HookDeliver ==
    /\ hook.delivered < Len(events)
    /\ LET ev == events[hook.delivered + 1]
       IN  IF ev.name = "run_step"
           THEN hook' = [hook EXCEPT !.delivered = @ + 1]
           ELSE \E p \in CASE hook.kind = "EnableCallbackIf" -> BOOLEAN
                          [] hook.kind = "PeriodicCallback" ->
                               {PeriodicCallback_predicate(hook, ev.epoch_num,
                                                           ev.local_step, ev.global_step)}
                          [] OTHER -> {FALSE} :
                   LET r == HookHandle(hook, ev.name, ev.epoch_num, ev.global_step, p)
                   IN  hook' = [hook EXCEPT
                                  !.delivered = @ + 1,
                                  !.has_enabled = r.has_enabled,
                                  !.enabled = r.enabled,
                                  !.calls = Append(@, [name |-> ev.name, args |-> ev.args,
                                                       pred |-> p,
                                                       fwd |-> r.fwd,
                                                       fwd_args |-> PassedOn(hook, ev.name,
                                                                             ev.args, r.fwd),
                                                       raised |-> r.raised,
                                                       epoch_num |-> ev.epoch_num,
                                                       local_step |-> ev.local_step,
                                                       global_step |-> ev.global_step])]
    /\ LET c == Callback_leaves(Counters)
       IN  /\ epoch_num' = c.epoch_num
           /\ global_step' = c.global_step
           /\ local_step' = c.local_step
           /\ steps_per_epoch' = c.steps_per_epoch
           /\ starting_epoch' = c.starting_epoch
           /\ max_epoch' = c.max_epoch
    /\ UNCHANGED <<impl, assigned, pc, consumed, feed_dict, output_dict, exc, caught,
                   result, events, saverVars, exceptHook>>

NextHook ==
    \/ HookLoop
    \/ HookDeliver

InitH == InitSched /\ InitSaverIdle /\ InitHook /\ IdleExcept("hook")

SpecHook == InitH /\ [][NextHook]_vars

\* ------------------------------------------------------------ properties of the wrappers
\* How often the inner callback's method m is called in fwd.
Count(m, fwd) == Cardinality({n \in DOMAIN fwd : fwd[n] = m})

C13_PeriodicTriggerSteps ==
    (hook.kind = "PeriodicTrigger" /\ hook.step_k # <<>>) =>
        \A i \in DOMAIN hook.calls :
            LET c == hook.calls[i]
                due == c.global_step % hook.step_k[1] = 0
            IN  IF c.name = "trigger_step"
                THEN c.fwd = IF due THEN <<"trigger_step", "trigger">> ELSE <<"trigger_step">>
                ELSE /\ Count("trigger_step", c.fwd) = 0
                     /\ (hook.epoch_k = <<>> /\ ~hook.do_before_train) =>
                            Count("trigger", c.fwd) = 0

\* A run of train/trainer.py through global steps 1 to 6 with k = 3 has ended:
\* trigger_step was forwarded at each of them, trigger called at 3 and 6 only.
C13_Witness ==
    /\ impl = "train" /\ pc = "done"
    /\ hook.kind = "PeriodicTrigger" /\ hook.step_k = <<3>>
    /\ hook.epoch_k = <<>> /\ ~hook.do_before_train
    /\ hook.delivered = Len(events)
    /\ {hook.calls[i].global_step :
            i \in {j \in DOMAIN hook.calls : Count("trigger_step", hook.calls[j].fwd) = 1}}
         = 1..6
    /\ {hook.calls[i].global_step :
            i \in {j \in DOMAIN hook.calls : Count("trigger", hook.calls[j].fwd) > 0}}
         = {3, 6}

\* The before_step notification that precedes call i most closely (0 if none).
PrecedingBeforeStep(i) ==
    LET js == {j \in 1..(i - 1) : hook.calls[j].name = "before_step"}
    IN  IF js = {} THEN 0 ELSE CHOOSE j \in js : \A k \in js : k <= j

\* C20: EnableCallbackIf forwards after_step exactly when the predicate returned
\* true at the before_step of the same step (where before_step was forwarded
\* too), whatever the predicate would return when after_step arrives.
C20_AfterStepFollowsBeforeStep ==
    hook.kind = "EnableCallbackIf" =>
        \A i \in DOMAIN hook.calls :
            hook.calls[i].name = "after_step" =>
                LET j == PrecedingBeforeStep(i)
                IN  /\ j # 0
                    /\ hook.calls[j].global_step = hook.calls[i].global_step
                    /\ hook.calls[j].fwd = IF hook.calls[j].pred THEN <<"before_step">> ELSE <<>>
                    /\ hook.calls[i].fwd = IF hook.calls[j].pred THEN <<"after_step">> ELSE <<>>
                    /\ hook.calls[i].raised = "none"

\* after_step was forwarded although the predicate would by then return false,
\* and in a later step held back although it would return true.
C20_Witness ==
    /\ hook.kind = "EnableCallbackIf"
    /\ \E i, k \in DOMAIN hook.calls :
          /\ i < k
          /\ hook.calls[i].name = "after_step" /\ hook.calls[k].name = "after_step"
          /\ hook.calls[i].fwd = <<"after_step">> /\ ~hook.calls[i].pred
          /\ hook.calls[k].fwd = <<>> /\ hook.calls[k].pred

\* Which step of its epoch the before_step handled as call i announces.
StepInEpoch(i) ==
    Cardinality({j \in 1..i : /\ hook.calls[j].name = "before_step"
                              /\ hook.calls[j].epoch_num = hook.calls[i].epoch_num})

\* C22: under the training loop a PeriodicCallback forwards before_step (its
\* predicate is true) exactly when every_k_steps is set and divides
\* global_step, or every_k_epochs is set and divides epoch_num, or
\* every_k_epochs is set and the step is the final step of the final epoch; so
\* with every_k_epochs not dividing max_epoch the inner callback still gets
\* the last step of the last epoch.
C22_PredicateAtFinalStep ==
    hook.kind = "PeriodicCallback" =>
        \A i \in DOMAIN hook.calls :
            LET c == hook.calls[i]
                by_step == IF hook.step_k = <<>> THEN FALSE
                           ELSE c.global_step % hook.step_k[1] = 0
                by_epoch == IF hook.epoch_k = <<>> THEN FALSE
                            ELSE c.epoch_num % hook.epoch_k[1] = 0
                final == /\ hook.epoch_k # <<>>
                         /\ c.epoch_num = max_epoch
                         /\ StepInEpoch(i) = steps_per_epoch
            IN  c.name = "before_step" =>
                    ((c.fwd = <<"before_step">>) <=> (by_step \/ by_epoch \/ final))

\* C23: on trigger_epoch a PeriodicTrigger calls inner.trigger() exactly once
\* if every_k_epochs is set and divides epoch_num, and calls nothing otherwise;
\* it never calls inner.trigger_epoch(), at no notification.
C23_PeriodicTriggerEpochs ==
    hook.kind = "PeriodicTrigger" =>
        \A i \in DOMAIN hook.calls :
            LET c == hook.calls[i]
                due == IF hook.epoch_k = <<>> THEN FALSE
                       ELSE c.epoch_num % hook.epoch_k[1] = 0
            IN  /\ c.name = "trigger_epoch" =>
                       c.fwd = IF due THEN <<"trigger">> ELSE <<>>
                /\ Count("trigger_epoch", c.fwd) = 0

\* A run over epochs 1 to 3 with every_k_epochs = 2 has ended: trigger() was
\* called at the trigger_epoch of epoch 2 and at no other.
C23_Witness ==
    /\ pc = "done"
    /\ hook.kind = "PeriodicTrigger" /\ hook.epoch_k = <<2>>
    /\ hook.delivered = Len(events)
    /\ {hook.calls[i].epoch_num :
            i \in {j \in DOMAIN hook.calls : hook.calls[j].name = "trigger_epoch"}} = 1..3
    /\ {hook.calls[i].epoch_num :
            i \in {j \in DOMAIN hook.calls : /\ hook.calls[j].name = "trigger_epoch"
                                             /\ hook.calls[j].fwd = <<"trigger">>}} = {2}

\* C24: on before_train a PeriodicTrigger calls inner.before_train() first and
\* then inner.trigger() exactly once if and only if it was constructed with
\* before_train=True, whatever the periods are.
C24_PeriodicTriggerBeforeTrain ==
    hook.kind = "PeriodicTrigger" =>
        \A i \in DOMAIN hook.calls :
            hook.calls[i].name = "before_train" =>
                hook.calls[i].fwd = IF hook.ctor.before_train
                                    THEN <<"before_train", "trigger">>
                                    ELSE <<"before_train">>

\* Constructed with before_train=True and every_k_steps = 1, the wrapper has
\* handled before_train (at global step 0): before_train, then one trigger().
C24_Witness ==
    /\ hook.kind = "PeriodicTrigger"
    /\ hook.ctor.before_train /\ hook.ctor.every_k_steps = <<1>>
    /\ Len(hook.calls) = 1
    /\ hook.calls[1].name = "before_train"
    /\ hook.calls[1].fwd = <<"before_train", "trigger">>

\* ------------------------------------------------------------ distributed gather
\* The values the ranks gather; their serialized lengths are 2, 3 and 4.
Payloads == {0, 5, 21}

\* The digits of n, least significant first (bytes of the model hold 0..3).
RECURSIVE PickleBody(_)
PickleBody(n) == IF n < 4 THEN <<n>> ELSE <<n % 4>> \o PickleBody(n \div 4)

\* pickle.dumps(data): a length byte, then that many bytes of content.
Dumps(n) == <<Len(PickleBody(n))>> \o PickleBody(n)

RECURSIVE UnpickleBody(_)
UnpickleBody(ds) == IF ds = <<>> THEN 0 ELSE ds[1] + 4 * UnpickleBody(Tail(ds))

\* pickle.loads(buffer): the content the length byte announces, bytes after it
\* ignored; -1 stands for the UnpicklingError on a buffer that ends too early.
Loads(buf) ==
    IF buf = <<>> THEN -1
    ELSE IF Len(buf) < 1 + buf[1] THEN -1
    ELSE UnpickleBody(SubSeq(buf, 2, 1 + buf[1]))

Ranks == 0..(comm.world_size - 1)

\* Mutant of UsesCollective: no shortcut for a group of one.
UsesCollectiveAlways(world_size) == TRUE

\* `if world_size == 1: return [data]` (allgather), `if dist.size() == 1: return` (barrier)
UsesCollective(world_size) == world_size # 1

\* Mutant of MaxSize: the smallest size.
MaxSizeAsMin(size_list) ==
    CHOOSE m \in {size_list[r] : r \in DOMAIN size_list} :
        \A r \in DOMAIN size_list : size_list[r] >= m

\* max(size_list)
MaxSize(size_list) ==
    CHOOSE m \in {size_list[r] : r \in DOMAIN size_list} :
        \A r \in DOMAIN size_list : size_list[r] <= m

\* torch.cat((tensor, padding)) when the tensor is shorter than max_size; the
\* padding is a torch.ByteTensor(size=...) whose bytes are not initialised
\* (every byte `fill` here).
Padded(tensor, max_size, fill) ==
    IF Len(tensor) # max_size /\ Len(tensor) < max_size
    THEN tensor \o [i \in 1..(max_size - Len(tensor)) |-> fill]
    ELSE tensor

\* The second all_gather fills the receive buffer of max_size bytes for rank r
\* with what rank r gave; tobytes()[:size] and pickle.loads follow.
Received(tensor, max_size, size) ==
    LET buffer == SubSeq(tensor, 1, IF Len(tensor) < max_size THEN Len(tensor) ELSE max_size)
    IN  Loads(SubSeq(buffer, 1, IF Len(buffer) < size THEN Len(buffer) ELSE size))

\* Mutant of Sum: the last element.
SumAsLast(data_list) == IF data_list = <<>> THEN 0 ELSE data_list[Len(data_list)]

\* sum(data) over the list allgather returned (-1 where pickle.loads raised,
\* and then so does the caller)
RECURSIVE Sum(_)
Sum(data_list) ==
    IF data_list = <<>> THEN 0
    ELSE LET rest == Sum(Tail(data_list))
         IN  IF data_list[1] = -1 \/ rest = -1 THEN -1 ELSE data_list[1] + rest

\* A group of world_size processes, each about to call allreduce(data), which
\* calls allgather(data).
InitComm ==
    /\ \E n \in 1..MaxWorldSize :
          comm \in {[world_size |-> n, data |-> d, pc |-> [r \in 0..(n - 1) |-> "start"],
                     sizes |-> [r \in 0..(n - 1) |-> 0],
                     tensors |-> [r \in 0..(n - 1) |-> <<>>],
                     out |-> [r \in 0..(n - 1) |-> <<>>],
                     reduced |-> [r \in 0..(n - 1) |-> -1],
                     exchanges |-> 0] : d \in [0..(n - 1) -> Payloads]}

\* allgather 18-20: the group of one.
AllgatherAlone ==
    \E r \in Ranks :
       /\ comm.pc[r] = "start"
       /\ ~UsesCollective(comm.world_size)
       /\ comm' = [comm EXCEPT !.out[r] = <<comm.data[r]>>,
                               !.reduced[r] = Sum(<<comm.data[r]>>), !.pc[r] = "gathered"]
       /\ UNCHANGED <<schedVars, saverVars, exceptComm>>

\* allgather 23-30: serialize, enter the all_gather of the sizes.
AllgatherSizes ==
    \E r \in Ranks :
       /\ comm.pc[r] = "start"
       /\ UsesCollective(comm.world_size)
       /\ comm' = [comm EXCEPT !.sizes[r] = Len(Dumps(comm.data[r])),
                               !.exchanges = @ + 1, !.pc[r] = "sizes"]
       /\ UNCHANGED <<schedVars, saverVars, exceptComm>>

\* allgather 30-41: the all_gather of the sizes completes once every rank has
\* entered it; pad, enter the all_gather of the tensors.
AllgatherTensors ==
    \E r \in Ranks :
       /\ comm.pc[r] = "sizes"
       /\ \A q \in Ranks : comm.sizes[q] # 0
       /\ \E fill \in {0, 3} :
             comm' = [comm EXCEPT !.tensors[r] = Padded(Dumps(comm.data[r]),
                                                        MaxSize(comm.sizes), fill),
                                  !.exchanges = @ + 1, !.pc[r] = "tensors"]
       /\ UNCHANGED <<schedVars, saverVars, exceptComm>>

\* What rank r's allgather returns from the tensors the ranks gave.
Gathered ==
    [i \in 1..comm.world_size |->
        Received(comm.tensors[i - 1], MaxSize(comm.sizes), comm.sizes[i - 1])]

\* Mutant of AllgatherReturn: the all_gather of the tensors does not wait.
AllgatherReturnEarly ==
    \E r \in Ranks :
       /\ comm.pc[r] = "tensors"
       /\ comm' = [comm EXCEPT !.out[r] = Gathered, !.reduced[r] = Sum(Gathered),
                               !.pc[r] = "gathered"]
       /\ UNCHANGED <<schedVars, saverVars, exceptComm>>

\* allgather 41-47: the all_gather of the tensors completes once every rank
\* has entered it; truncate and deserialize in rank order. allreduce 14 sums.
AllgatherReturn ==
    \E r \in Ranks :
       /\ comm.pc[r] = "tensors"
       /\ \A q \in Ranks : comm.tensors[q] # <<>>
       /\ comm' = [comm EXCEPT !.out[r] = Gathered, !.reduced[r] = Sum(Gathered),
                               !.pc[r] = "gathered"]
       /\ UNCHANGED <<schedVars, saverVars, exceptComm>>

\* barrier 51-52: the group of one.
BarrierAlone ==
    \E r \in Ranks :
       /\ comm.pc[r] = "gathered"
       /\ ~UsesCollective(comm.world_size)
       /\ comm' = [comm EXCEPT !.pc[r] = "done"]
       /\ UNCHANGED <<schedVars, saverVars, exceptComm>>

\* barrier 53: enter torch.distributed.barrier()
BarrierEnter ==
    \E r \in Ranks :
       /\ comm.pc[r] = "gathered"
       /\ UsesCollective(comm.world_size)
       /\ comm' = [comm EXCEPT !.exchanges = @ + 1, !.pc[r] = "barrier"]
       /\ UNCHANGED <<schedVars, saverVars, exceptComm>>

\* torch.distributed.barrier() returns once every rank has entered it.
BarrierLeave ==
    \E r \in Ranks :
       /\ comm.pc[r] = "barrier"
       /\ \A q \in Ranks : comm.pc[q] \in {"barrier", "done"}
       /\ comm' = [comm EXCEPT !.pc[r] = "done"]
       /\ UNCHANGED <<schedVars, saverVars, exceptComm>>

NextComm ==
    \/ AllgatherAlone
    \/ AllgatherSizes
    \/ AllgatherTensors
    \/ AllgatherReturn
    \/ BarrierAlone
    \/ BarrierEnter
    \/ BarrierLeave

InitC == InitSchedIdle /\ InitSaverIdle /\ InitComm /\ IdleExcept("comm")

SpecComm == InitC /\ [][NextComm]_vars

\* ------------------------------------------------------------ properties of the gather
\* C14: in a group of one, allgather(v) returns [v] and barrier() returns, both
\* without entering any collective exchange.
C14_GroupOfOne ==
    comm.world_size = 1 =>
        /\ comm.exchanges = 0
        /\ comm.pc[0] \in {"start", "gathered", "done"}
        /\ comm.pc[0] # "start" => comm.out[0] = <<comm.data[0]>>

\* The only member has returned from allgather and from barrier.
C14_Witness ==
    /\ comm.world_size = 1
    /\ comm.pc[0] = "done"
    /\ comm.out[0] = <<21>>

\* C15: in a group of more than one, whatever the serialized lengths and the
\* order in which the members arrive, every member that has returned from
\* allgather holds the same list, whose element r is rank r's value.
C15_GatherRankOrder ==
    comm.world_size > 1 =>
        \A r \in Ranks :
            comm.pc[r] \in {"gathered", "barrier", "done"} =>
                comm.out[r] = [i \in 1..comm.world_size |-> comm.data[i - 1]]

\* Three members with values of three different serialized lengths have all
\* returned from allgather.
C15_Witness ==
    /\ comm.world_size = 3
    /\ comm.data = [r \in 0..2 |-> <<5, 21, 0>>[r + 1]]
    /\ \A r \in Ranks : comm.pc[r] = "gathered"
    /\ \A r \in Ranks : comm.out[r] = <<5, 21, 0>>

\* The members that have returned from allgather.
Returned == {r \in Ranks : comm.pc[r] \in {"gathered", "barrier", "done"}}

\* C31: in a group of more than one no member returns from allgather before
\* every member has entered the exchange of the sizes and the exchange of the
\* tensors of that call; while one member has not called allgather, none has
\* returned.
C31_Rendezvous ==
    (comm.world_size > 1 /\ Returned # {}) =>
        \A q \in Ranks : /\ comm.sizes[q] # 0
                         /\ comm.tensors[q] # <<>>
                         /\ comm.pc[q] # "start"

\* Of three members one has returned while the other two, having entered the
\* exchange of the tensors, are still in it.
C31_Witness ==
    /\ comm.world_size = 3
    /\ Cardinality(Returned) = 1
    /\ \A q \in Ranks \ Returned : comm.pc[q] = "tensors"

\* The sum of the values the members supplied.
RECURSIVE Total(_)
Total(n) == IF n = 0 THEN 0 ELSE comm.data[n - 1] + Total(n - 1)

\* C32: allreduce(v) returns on every member the sum of the values the
\* world_size members supplied, v itself in a group of one; so all members
\* obtain the same result.
C32_AllreduceSum ==
    \A r \in Returned : comm.reduced[r] = Total(comm.world_size)

\* Three members supplying 5, 21 and 0 have all obtained 26.
C32_Witness ==
    /\ comm.world_size = 3
    /\ comm.data = [r \in 0..2 |-> <<5, 21, 0>>[r + 1]]
    /\ Returned = Ranks
    /\ \A r \in Ranks : comm.reduced[r] = 26

\* ------------------------------------------------------------ state_dict / load_state_dict
\* train/trainer.py state_dict: the three counters (with the extension and the
\* callbacks' state, which the model leaves out); trainer/base.py state_dict:
\* the model's state only.
StateDict(e, l, g) ==
    IF impl = "train"
    THEN [has_counters |-> TRUE, epoch_num |-> e, local_step |-> l, global_step |-> g]
    ELSE [has_counters |-> FALSE, epoch_num |-> 0, local_step |-> 0, global_step |-> 0]

\* Mutant of LoadedCounters: global_step derived from the restored epoch_num.
LoadedCountersDerived(rec, cur) ==
    IF impl = "train"
    THEN <<rec.epoch_num, rec.local_step, rec.epoch_num * steps_per_epoch>>
    ELSE cur

\* The counters after load_state_dict(rec), `cur` being the counters before:
\* train/trainer.py assigns the three entries of the record as they are;
\* trainer/base.py loads the model only.
LoadedCounters(rec, cur) ==
    IF impl = "train"
    THEN <<rec.epoch_num, rec.local_step, rec.global_step>>
    ELSE cur

\* load_state_dict(rec) with the counters `cur`: the counters afterwards, the
\* record object afterwards and the exception let out. train/trainer.py takes
\* each entry with state_dict.pop(key), which removes it from the caller's
\* dict, and raises KeyError for a dict without the entry before anything is
\* assigned; trainer/base.py reads state_dict['model'] and leaves the dict alone.
load_state_dict(rec, cur) ==
    IF impl = "train"
    THEN IF rec.has_counters
         THEN [counters |-> LoadedCounters(rec, cur),
               record |-> [has_counters |-> FALSE, epoch_num |-> 0, local_step |-> 0,
                           global_step |-> 0],
               raised |-> "none"]
         ELSE [counters |-> cur, record |-> rec, raised |-> "KeyError"]
    ELSE [counters |-> LoadedCounters(rec, cur), record |-> rec, raised |-> "none"]

\* The records of an earlier run of train/trainer.py whose epochs had s steps,
\* taken at the end of its epoch e.
Records ==
    {[has_counters |-> TRUE, epoch_num |-> e, local_step |-> s, global_step |-> e * s] :
        e \in 1..MaxEpoch, s \in 1..MaxStepsPerEpoch}

\* A caller resumes from a record: load_state_dict before train() is called,
\* or from a callback during before_train.
LoadStateDict ==
    /\ restore.loaded = <<>>
    /\ ~restore.restored
    /\ pc = "begin" \/ (pc = "while" /\ Len(events) = 1)
    /\ \E rec \in Records :
          LET r == load_state_dict(rec, <<epoch_num, local_step, global_step>>)
              c == r.counters
          IN  /\ epoch_num' = c[1]
              /\ local_step' = c[2]
              /\ global_step' = c[3]
              /\ assigned' = IF impl = "train"
                             THEN assigned \cup {"epoch_num", "local_step", "global_step"}
                             ELSE assigned
              /\ restore' = [restore EXCEPT !.loaded = rec, !.loaded_at = Len(events),
                                            !.record = r.record]
    /\ UNCHANGED <<impl, steps_per_epoch, starting_epoch, max_epoch, pc, consumed, feed_dict,
                   output_dict, exc, caught, result, events, saverVars, exceptRestore>>

\* The caller hands the same record object to load_state_dict once more,
\* straight after the first call.
LoadStateDictAgain ==
    /\ restore.loaded # <<>>
    /\ restore.again = "no"
    /\ Len(events) = restore.loaded_at
    /\ pc = "begin" \/ pc = "while"
    /\ LET r == load_state_dict(restore.record, <<epoch_num, local_step, global_step>>)
           c == r.counters
       IN  /\ epoch_num' = c[1]
           /\ local_step' = c[2]
           /\ global_step' = c[3]
           /\ restore' = [restore EXCEPT !.record = r.record, !.again = r.raised]
    /\ UNCHANGED <<impl, steps_per_epoch, starting_epoch, max_epoch, assigned, pc, consumed,
                   feed_dict, output_dict, exc, caught, result, events, saverVars,
                   exceptRestore>>

\* A callback takes state_dict() during the run and hands it to
\* load_state_dict at once. state_dict() of train/trainer.py reads the three
\* counters: AttributeError while one of them has not been assigned.
SaveRestore ==
    /\ pc \notin {"begin", "done"}
    /\ IF impl = "train" /\ assigned # {"epoch_num", "local_step", "global_step"}
       THEN /\ restore' = [restore EXCEPT !.raised = "AttributeError"]
            /\ UNCHANGED <<epoch_num, local_step, global_step>>
       ELSE LET cur == <<epoch_num, local_step, global_step>>
                c == LoadedCounters(StateDict(epoch_num, local_step, global_step), cur)
            IN  /\ epoch_num' = c[1]
                /\ local_step' = c[2]
                /\ global_step' = c[3]
                /\ restore' = [restore EXCEPT !.restored = TRUE, !.before = cur,
                                              !.after = c, !.raised = "none"]
    /\ UNCHANGED <<impl, steps_per_epoch, starting_epoch, max_epoch, assigned, pc, consumed,
                   feed_dict, output_dict, exc, caught, result, events, saverVars,
                   exceptRestore>>

\* The loop, no callback raising; a KeyError out of load_state_dict has ended
\* the caller.
RestoreLoop ==
    /\ restore.again # "KeyError"
    /\ Next
    /\ Quiet'

NextRestore ==
    \/ RestoreLoop
    \/ LoadStateDict
    \/ LoadStateDictAgain
    \/ SaveRestore

\* A run from epoch 1 or 2 on which nothing has been saved or loaded yet.
InitR ==
    /\ InitSched
    /\ starting_epoch <= 2
    /\ InitSaverIdle
    /\ restore = NoRestore
    /\ IdleExcept("restore")

SpecRestore == InitR /\ [][NextRestore]_vars

\* ------------------------------------------------------------ properties of save / restore
\* C16: after a state record has been loaded, training resumes with global_step
\* equal to the restored epoch_num times the current steps_per_epoch, not with
\* the stored global_step.
C16_ResumeDerivesGlobalStep ==
    (/\ restore.loaded # <<>>
     /\ \/ pc = "before_train"
        \/ pc = "while" /\ Len(events) = restore.loaded_at /\ restore.loaded_at = 1)
        => /\ epoch_num = restore.loaded.epoch_num
           /\ global_step = restore.loaded.epoch_num * steps_per_epoch

C39_LoadTwice ==
    (restore.loaded # <<>> /\ Len(events) = restore.loaded_at) =>
        /\ restore.record = restore.loaded
        /\ restore.again \in {"no", "none"}
        /\ restore.again = "none" =>
               <<epoch_num, local_step, global_step>>
                   = LoadedCounters(restore.loaded, <<epoch_num, local_step, global_step>>)

\* ------------------------------------------------------------ the group on its own
\* The methods of Callbacks that fan out to the members.
GroupNotifications ==
    {"setup_trainer", "before_train", "before_epoch", "before_step", "after_step",
     "trigger_step", "after_epoch", "trigger_epoch", "after_train", "trigger"}

\* The group receives a notification; each member's handler returns or raises.
GroupNotify ==
    /\ group.sent < MaxNotifications
    /\ \E name \in GroupNotifications, outs \in [1..NumCallbacks -> Outcomes] :
          LET r == GroupFanOut(name, outs)
          IN  group' = [group EXCEPT !.sent = @ + 1, !.name = name, !.outs = outs,
                                     !.got = r.got, !.raised = r.exc, !.logged = r.logged]
    /\ UNCHANGED <<schedVars, saverVars, exceptGroup>>

NextGroup == GroupNotify

InitG == InitSchedIdle /\ InitSaverIdle /\ group = NoGroupCall /\ IdleExcept("group")

SpecGroup == InitG /\ [][NextGroup]_vars

\* ------------------------------------------------------------ properties of the group
\* The members whose handler ends the fan-out of the last notification by
\* raising: any raise, or for after_train a raise that is no Exception.
Stoppers ==
    {i \in 1..NumCallbacks :
        IF group.name = "after_train" THEN group.outs[i] = "KeyboardInterrupt"
        ELSE group.outs[i] # "ok"}

\* C19 as stated: the group delivers every notification it receives to every
\* member exactly once, in registration order.
C19_DeliversToEveryMember ==
    group.sent > 0 => group.got = AllMembers

\* C19, amended: the group delivers a notification to its members in
\* registration order, each at most once, up to and including the first member
\* whose handler raises (for after_train: raises something that is no
\* Exception); when no handler does, every member gets it exactly once.
C19_DeliversUpToFirstRaise ==
    group.sent > 0 =>
        LET last == IF Stoppers = {} THEN NumCallbacks
                    ELSE CHOOSE i \in Stoppers : \A j \in Stoppers : i <= j
        IN  group.got = [i \in 1..last |-> i]

\* A `trigger` reached every member; a `setup_trainer` before it would have too.
C19_Witness ==
    /\ group.sent = 2
    /\ group.name = "trigger"
    /\ Stoppers = {}
    /\ group.got = AllMembers

\* ------------------------------------------------------------ registration
\* Mutant of register_callback: only the chief skips chief-only callbacks.
register_callback_on_chief(is_chief, chief_only) == ~(is_chief /\ chief_only)

\* Trainer.register_callback of trainer/base.py before the group exists:
\* whether the callback is appended to Trainer.callbacks (the value returned).
register_callback(is_chief, chief_only) == ~(~is_chief /\ chief_only)

\* Trainer.setup_callbacks(callbacks, monitors) is entered with NumCallbacks
\* callbacks and one monitor; the MonitorGroup it builds is registered last.
\* Every object has either chief_only, the process is the chief or is not.
InitRegister ==
    group \in {[NoGroupCall EXCEPT !.is_chief = c, !.flags = f] :
                  c \in BOOLEAN, f \in [1..(NumCallbacks + 2) -> BOOLEAN]}

\* The next register_callback call of setup_callbacks.
RegisterCallback ==
    /\ ~group.setup
    /\ group.next < Len(group.flags)
    /\ LET i == group.next + 1
       IN  group' = [group EXCEPT
                       !.next = i,
                       !.callbacks = IF register_callback(group.is_chief, group.flags[i])
                                     THEN Append(@, i) ELSE @]
    /\ UNCHANGED <<schedVars, saverVars, exceptGroup>>

\* setup_callbacks ends: Trainer.callbacks becomes the group of the registered.
RegisterSetup ==
    /\ ~group.setup
    /\ group.next = Len(group.flags)
    /\ group' = [group EXCEPT !.setup = TRUE]
    /\ UNCHANGED <<schedVars, saverVars, exceptGroup>>

\* register_callback once the group exists: its assertion fails, nothing is added.
RegisterLate ==
    /\ group.setup
    /\ group.sent < MaxNotifications
    /\ group' = [group EXCEPT !.sent = @ + 1, !.name = "register_callback",
                                !.got = <<>>, !.raised = "AssertionError"]
    /\ UNCHANGED <<schedVars, saverVars, exceptGroup>>

\* The trainer notifies the group, which calls its members in order; no
\* handler raises.
RegisterNotify ==
    /\ group.setup
    /\ group.sent < MaxNotifications
    /\ \E name \in GroupNotifications :
           group' = [group EXCEPT !.sent = @ + 1, !.name = name,
                                  !.got = group.callbacks, !.raised = "none"]
    /\ UNCHANGED <<schedVars, saverVars, exceptGroup>>

NextRegister ==
    \/ RegisterCallback
    \/ RegisterSetup
    \/ RegisterLate
    \/ RegisterNotify

InitReg == InitSchedIdle /\ InitSaverIdle /\ InitRegister /\ IdleExcept("group")

SpecRegister == InitReg /\ [][NextRegister]_vars

\* ------------------------------------------------------------ properties of registration
\* The objects among the first n that a process registers, in order: all of
\* them on the chief, elsewhere those that are not chief-only.
RECURSIVE Eligible(_)
Eligible(n) ==
    IF n = 0 THEN <<>>
    ELSE IF group.is_chief \/ ~group.flags[n] THEN Append(Eligible(n - 1), n)
    ELSE Eligible(n - 1)

\* C30: under Trainer of trainer/base.py (the trainer that knows a chief), a
\* process that is not the chief never adds a chief-only callback to the
\* group, so that it gets no notification; it adds every other callback, the
\* chief adds every callback, and the group keeps the order of registration.
C30_ChiefOnlySkipped ==
    /\ group.callbacks = Eligible(group.next)
    /\ group.name \in GroupNotifications => group.got = Eligible(Len(group.flags))

\* Not the chief: the first callback, chief-only, was skipped, the second and
\* the monitor were registered, and a notification reached these two in order.
C30_Witness ==
    /\ ~group.is_chief
    /\ group.flags = <<TRUE, FALSE, FALSE, TRUE>>
    /\ group.setup
    /\ group.name = "trigger_epoch"
    /\ group.got = <<2, 3>>

\* ------------------------------------------------------------ callbacks called directly
\* The handlers a LambdaCallback is constructed with.
LambdaBindings ==
    {{}, GroupNotifications} \cup {{n} : n \in GroupNotifications}
        \cup {{n, "trigger"} : n \in GroupNotifications}

\* The arguments the methods of Callback take: setup_trainer(trainer),
\* before_step(fd), after_step(fd, od), the others none.
CallArgs(name) ==
    CASE name = "setup_trainer" -> {<<"trainer">>}
      [] name = "before_step"   -> {<<FeedDict(k)>> : k \in {1, MaxStepsPerEpoch}}
      [] name = "after_step"    -> {<<FeedDict(k), OutputDict(1, k)>> :
                                        k \in {1, MaxStepsPerEpoch}}
      [] OTHER                  -> {<<>>}

\* Mutant of set_chief_only: the wrapper's flag follows the inner callback's.
set_chief_only_shared(h, who, v) ==
    IF who = "self" THEN [h EXCEPT !.chief_only = v]
    ELSE [h EXCEPT !.chief_only = v, !.inner_chief_only = v]

\* Callback.set_chief_only(v) called on the wrapper ("self") or on the callback
\* it wraps ("callback"): it assigns the object's own _chief_only.
set_chief_only(h, who, v) ==
    IF who = "self" THEN [h EXCEPT !.chief_only = v]
    ELSE [h EXCEPT !.inner_chief_only = v]

\* One of the callback classes is instantiated; the wrappers are given a
\* Callback (a ProxyCallback one with either chief_only).
CallbackConstruct ==
    /\ hook = NoHook
    /\ hook' \in {ProxyCallback_init(Ctor("ProxyCallback", <<>>, <<>>, FALSE, co)) :
                     co \in BOOLEAN}
                 \cup {PeriodicTrigger_init(sk, ek, bt) :
                          sk \in Periods, ek \in Periods, bt \in BOOLEAN}
                 \cup {PeriodicCallback_init(sk, ek) : sk \in Periods, ek \in Periods}
                 \cup {EnableCallbackIf_init}
                 \cup {LambdaCallback_init(b) : b \in LambdaBindings}
    /\ UNCHANGED <<schedVars, saverVars, exceptHook>>

\* A method of Callback is called on the object; no trainer is running, so
\* the callbacks that read its counters are left to the training loop.
CallbackCall ==
    /\ hook.kind \in {"ProxyCallback", "EnableCallbackIf", "LambdaCallback"}
    /\ Len(hook.calls) < MaxCalls
    /\ \E name \in GroupNotifications :
       \E args \in CallArgs(name) :
       \E p \in IF hook.kind = "EnableCallbackIf" THEN BOOLEAN ELSE {FALSE} :
           LET r == HookHandle(hook, name, 0, 0, p)
           IN  hook' = [hook EXCEPT
                          !.has_enabled = r.has_enabled,
                          !.enabled = r.enabled,
                          !.calls = Append(@, [name |-> name, args |-> args, pred |-> p,
                                               fwd |-> r.fwd,
                                               fwd_args |-> PassedOn(hook, name, args, r.fwd),
                                               raised |-> r.raised,
                                               epoch_num |-> 0, local_step |-> 0,
                                               global_step |-> 0])]
    /\ UNCHANGED <<schedVars, saverVars, exceptHook>>

\* set_chief_only is called on a ProxyCallback or on the callback it wraps.
CallbackSetChiefOnly ==
    /\ hook.kind = "ProxyCallback"
    /\ Len(hook.calls) < MaxCalls
    /\ \E who \in {"self", "callback"}, v \in BOOLEAN :
           hook' = [set_chief_only(hook, who, v) EXCEPT
                      !.calls = Append(@, [name |-> "set_chief_only", args |-> <<who, v>>,
                                           pred |-> FALSE, fwd |-> <<>>, fwd_args |-> <<>>,
                                           raised |-> "none",
                                           epoch_num |-> 0, local_step |-> 0,
                                           global_step |-> 0])]
    /\ UNCHANGED <<schedVars, saverVars, exceptHook>>

NextCallback ==
    \/ CallbackConstruct
    \/ CallbackCall
    \/ CallbackSetChiefOnly

InitCb == InitSchedIdle /\ InitSaverIdle /\ hook = NoHook /\ IdleExcept("hook")

SpecCallback == InitCb /\ [][NextCallback]_vars

\* ------------------------------------------------------------ properties of the callbacks
\* C21: EnableCallbackIf forwards before_epoch, after_epoch, trigger_epoch and
\* trigger_step to the inner callback exactly when the predicate returns true
\* at that call, whatever it returned at earlier calls; setup_trainer,
\* before_train, after_train and trigger are forwarded always.
C21_GatedByPredicateNow ==
    hook.kind = "EnableCallbackIf" =>
        \A i \in DOMAIN hook.calls :
            LET c == hook.calls[i]
            IN  /\ c.name \in {"before_epoch", "after_epoch", "trigger_epoch", "trigger_step"}
                       => c.fwd = IF c.pred THEN <<c.name>> ELSE <<>>
                /\ c.name \in {"setup_trainer", "before_train", "after_train", "trigger"}
                       => c.fwd = <<c.name>>

\* The predicate was false at a before_step, true at the trigger_step after it
\* (forwarded), and false at the trigger_epoch after that (held back).
C21_Witness ==
    /\ hook.kind = "EnableCallbackIf"
    /\ Len(hook.calls) = 3
    /\ hook.calls[1].name = "before_step" /\ ~hook.calls[1].pred
    /\ hook.calls[2].name = "trigger_step" /\ hook.calls[2].pred
    /\ hook.calls[2].fwd = <<"trigger_step">>
    /\ hook.calls[3].name = "trigger_epoch" /\ ~hook.calls[3].pred
    /\ hook.calls[3].fwd = <<>>

\* C25: given a Callback, constructing a PeriodicTrigger fails exactly when
\* every_k_steps and every_k_epochs are both None and before_train is False,
\* and constructing a PeriodicCallback fails exactly when both periods are
\* None; every other construction yields an object of the class.
C25_ConstructionFails ==
    LET c == hook.ctor
        unset == c.every_k_steps = <<>> /\ c.every_k_epochs = <<>>
    IN  /\ c.cls = "PeriodicTrigger" =>
               (hook.kind = "AssertionError" <=> (unset /\ ~c.before_train))
        /\ c.cls = "PeriodicCallback" => (hook.kind = "AssertionError" <=> unset)
        /\ hook.kind # "AssertionError" => hook.kind = c.cls

\* PeriodicTrigger(inner) with neither period nor before_train has raised.
C25_Witness ==
    /\ hook.ctor.cls = "PeriodicTrigger"
    /\ hook.ctor.every_k_steps = <<>> /\ hook.ctor.every_k_epochs = <<>>
    /\ ~hook.ctor.before_train
    /\ hook.kind = "AssertionError"

\* The calls the inner callback (for a LambdaCallback: the handlers) got
\* during the first n calls of the object, in order, each with its arguments.
RECURSIVE InnerReceived(_)
InnerReceived(n) ==
    IF n = 0 THEN <<>>
    ELSE InnerReceived(n - 1) \o
         [k \in DOMAIN hook.calls[n].fwd |->
             [name |-> hook.calls[n].fwd[k], args |-> hook.calls[n].fwd_args[k]]]

\* The notifications the object was sent, in order, each with its arguments.
Sent ==
    LET ns == SelectSeq(hook.calls, LAMBDA c : c.name \in GroupNotifications)
    IN  [i \in DOMAIN ns |-> [name |-> ns[i].name, args |-> ns[i].args]]

\* C26: whatever notifications a ProxyCallback is sent, the inner callback
\* receives the same notifications in the same order with the same arguments,
\* each once, and nothing else; no handler of the proxy raises.
C26_ProxyForwardsVerbatim ==
    hook.kind = "ProxyCallback" =>
        /\ InnerReceived(Len(hook.calls)) = Sent
        /\ \A i \in DOMAIN hook.calls : hook.calls[i].raised = "none"

\* A proxy was sent after_step, trigger_epoch and setup_trainer in this order;
\* the inner callback got the three with the item, the output and the trainer.
C26_Witness ==
    /\ hook.kind = "ProxyCallback"
    /\ Sent = << [name |-> "after_step",
                  args |-> <<FeedDict(MaxStepsPerEpoch), OutputDict(1, MaxStepsPerEpoch)>>],
                 [name |-> "trigger_epoch", args |-> <<>>],
                 [name |-> "setup_trainer", args |-> <<"trainer">>] >>
    /\ InnerReceived(3) = Sent

\* The value the last set_chief_only on `who` gave, or the flag of the wrapped
\* callback at construction if there was none.
LastSet(who) ==
    LET js == {j \in DOMAIN hook.calls : /\ hook.calls[j].name = "set_chief_only"
                                          /\ hook.calls[j].args[1] = who}
    IN  IF js = {} THEN hook.ctor.chief_only
        ELSE hook.calls[CHOOSE j \in js : \A k \in js : k <= j].args[2]

\* C27: a ProxyCallback's chief_only is the wrapped callback's chief_only as it
\* was at construction until it is set on the proxy itself; setting the
\* wrapped callback's flag later does not change the proxy's, and setting the
\* proxy's does not change the wrapped callback's.
C27_ChiefOnlySnapshot ==
    hook.kind = "ProxyCallback" =>
        /\ hook.chief_only = LastSet("self")
        /\ hook.inner_chief_only = LastSet("callback")

\* Built around a chief-only callback whose flag was cleared afterwards, the
\* proxy is still chief-only.
C27_Witness ==
    /\ hook.kind = "ProxyCallback"
    /\ hook.ctor.chief_only
    /\ Len(hook.calls) = 2
    /\ hook.calls[1].name = "before_train"
    /\ hook.calls[2].name = "set_chief_only" /\ hook.calls[2].args = <<"callback", FALSE>>
    /\ hook.chief_only /\ ~hook.inner_chief_only

\* C28: for each notification sent to a LambdaCallback, if a handler was given
\* for it, exactly that handler is called, once, with the callback itself and
\* then the notification's item and output if it has them, and no other
\* handler is; if none was given, the method of Callback runs: nothing, except
\* that for trigger_epoch it is self._trigger(), which calls the trigger handler
\* if one was given.
C28_LambdaDispatch ==
    hook.kind = "LambdaCallback" =>
        \A i \in DOMAIN hook.calls :
            LET c == hook.calls[i]
                payload == IF c.name \in {"before_step", "after_step"} THEN c.args ELSE <<>>
            IN  IF c.name \in hook.bound
                THEN c.fwd = <<c.name>> /\ c.fwd_args = << <<"self">> \o payload >>
                ELSE IF c.name = "trigger_epoch" /\ "trigger" \in hook.bound
                THEN c.fwd = <<"trigger">> /\ c.fwd_args = << <<"self">> >>
                ELSE c.fwd = <<>>

\* With handlers for after_step and trigger only: after_step reached its
\* handler with the callback, the item and the output; before_step, unbound,
\* reached none.
C28_Witness ==
    /\ hook.kind = "LambdaCallback"
    /\ hook.bound = {"after_step", "trigger"}
    /\ Len(hook.calls) = 2
    /\ hook.calls[1].name = "after_step"
    /\ hook.calls[1].fwd = <<"after_step">>
    /\ hook.calls[1].fwd_args = << <<"self", FeedDict(1), OutputDict(1, 1)>> >>
    /\ hook.calls[2].name = "before_step"
    /\ hook.calls[2].fwd = <<>>

\* C29: trigger_epoch on a LambdaCallback without a trigger_epoch handler (a
\* callback that does not override _trigger_epoch) runs the callback's trigger
\* once, seen as one call of the trigger handler if there is one; with a
\* trigger_epoch handler, that handler is called and the trigger handler is not.
C29_TriggerEpochDefault ==
    hook.kind = "LambdaCallback" =>
        \A i \in DOMAIN hook.calls :
            hook.calls[i].name = "trigger_epoch" =>
                /\ Count("trigger_epoch", hook.calls[i].fwd) =
                       IF "trigger_epoch" \in hook.bound THEN 1 ELSE 0
                /\ Count("trigger", hook.calls[i].fwd) =
                       IF "trigger_epoch" \notin hook.bound /\ "trigger" \in hook.bound
                       THEN 1 ELSE 0
                /\ Len(hook.calls[i].fwd) <= 1

\* With a trigger handler only, trigger_epoch called it once; trigger itself
\* called it once more.
C29_Witness ==
    /\ hook.kind = "LambdaCallback"
    /\ hook.bound = {"trigger"}
    /\ Len(hook.calls) = 2
    /\ hook.calls[1].name = "trigger_epoch" /\ hook.calls[1].fwd = <<"trigger">>
    /\ hook.calls[2].name = "trigger" /\ hook.calls[2].fwd = <<"trigger">>

\* ------------------------------------------------------------ GPUUtilizationTracker
\* Mutant of GPUUtilizationTracker_trigger_epoch: an empty queue stops the
\* training as the error marker does.
GPUUtilizationTracker_trigger_epoch_lenient(got) ==
    IF got \in {"timeout", "None"}
    THEN [got |-> got, raised |-> "StopTraining", recorded |-> FALSE]
    ELSE [got |-> got, raised |-> "none", recorded |-> TRUE]

\* GPUUtilizationTracker._trigger_epoch, `got` being what queue.get(timeout=60)
\* gave: queue.Empty is answered with RuntimeError (whether or not the process
\* is alive), None with StopTraining, a result with add_scalar.
GPUUtilizationTracker_trigger_epoch(got) ==
    CASE got = "timeout" -> [got |-> got, raised |-> "RuntimeError", recorded |-> FALSE]
      [] got = "None" -> [got |-> got, raised |-> "StopTraining", recorded |-> FALSE]
      [] OTHER -> [got |-> got, raised |-> "none", recorded |-> TRUE]

\* The worker is about to put something on the queue without another
\* event.set() of the training process: it has left the sampling loop, or it
\* is in it with the flag set, or it is in the except clause.
AboutToPut ==
    \/ tracker.worker \in {"put", "except"}
    \/ tracker.worker \in {"test", "sample"} /\ tracker.event

\* GPUUtilizationTracker.__init__ with devices given, registered with a trainer
\* whose run has `n` epochs.
InitTracker ==
    tracker \in {[NoTracker EXCEPT !.main = "before_train", !.epochs = n] : n \in 1..MaxEpoch}

\* _before_train: the event, the queue and the worker process, started. The
\* worker enters NVMLContext() and ctx.device() outside its try block: an
\* exception there ends the process with nothing put.
TrackerBeforeTrain ==
    /\ tracker.main = "before_train"
    /\ \E started \in BOOLEAN :
          tracker' = [tracker EXCEPT !.main = "loop", !.event = FALSE, !.queue = <<>>,
                                     !.worker = IF started THEN "wait" ELSE "dead",
                                     !.failed = ~started]
    /\ UNCHANGED <<schedVars, saverVars, exceptTracker>>

\* The next epoch of the loop begins; _before_epoch: self.event.set().
TrackerBeforeEpoch ==
    /\ tracker.main = "loop"
    /\ tracker.epoch < tracker.epochs
    /\ tracker' = [tracker EXCEPT !.main = "in_epoch", !.epoch = @ + 1, !.event = TRUE]
    /\ UNCHANGED <<schedVars, saverVars, exceptTracker>>

\* The steps of the epoch are over; _after_epoch: self.event.set().
TrackerAfterEpoch ==
    /\ tracker.main = "in_epoch"
    /\ tracker' = [tracker EXCEPT !.main = "trigger_epoch", !.event = TRUE]
    /\ UNCHANGED <<schedVars, saverVars, exceptTracker>>

\* _trigger_epoch: queue.get(timeout=60) returns the head of the queue as soon
\* as there is one; it raises queue.Empty when the queue is empty and stays so,
\* the worker not being about to put. An exception leaves the loop for the
\* finally clause.
TrackerTriggerEpoch ==
    /\ tracker.main = "trigger_epoch"
    /\ tracker.queue # <<>> \/ ~AboutToPut
    /\ LET got == IF tracker.queue # <<>> THEN Head(tracker.queue) ELSE "timeout"
           r == GPUUtilizationTracker_trigger_epoch(got)
       IN  tracker' = [tracker EXCEPT
                          !.queue = IF @ # <<>> THEN Tail(@) ELSE @,
                          !.last = r,
                          !.scalars = IF r.recorded THEN @ + 1 ELSE @,
                          !.pending = r.raised,
                          !.main = IF r.raised = "none" THEN "loop" ELSE "after_train"]
    /\ UNCHANGED <<schedVars, saverVars, exceptTracker>>

\* finally: _after_train: self.process.terminate(); StopTraining is caught by
\* the loop, any other exception goes on to the caller.
TrackerAfterTrain ==
    /\ \/ tracker.main = "after_train"
       \/ tracker.main = "loop" /\ tracker.epoch = tracker.epochs
    /\ tracker' = [tracker EXCEPT
                      !.main = "done",
                      !.worker = "dead",
                      !.result = IF tracker.pending \in {"none", "StopTraining"}
                                 THEN "returned" ELSE tracker.pending]
    /\ UNCHANGED <<schedVars, saverVars, exceptTracker>>

\* _worker: event.wait() returns once the flag is set.
WorkerWait ==
    /\ tracker.worker = "wait"
    /\ tracker.event
    /\ tracker' = [tracker EXCEPT !.worker = "clear"]
    /\ UNCHANGED <<schedVars, saverVars, exceptTracker>>

\* _worker: event.clear(); utils = [].
WorkerClear ==
    /\ tracker.worker = "clear"
    /\ tracker' = [tracker EXCEPT !.worker = "test", !.event = FALSE]
    /\ UNCHANGED <<schedVars, saverVars, exceptTracker>>

\* _worker: `while not event.is_set()`.
WorkerTest ==
    /\ tracker.worker = "test"
    /\ tracker' = [tracker EXCEPT !.worker = IF tracker.event THEN "put" ELSE "sample"]
    /\ UNCHANGED <<schedVars, saverVars, exceptTracker>>

\* _worker: time.sleep(1) and one reading of the devices, which may raise.
WorkerSample ==
    /\ tracker.worker = "sample"
    /\ \E ok \in BOOLEAN :
          tracker' = [tracker EXCEPT !.worker = IF ok THEN "test" ELSE "except",
                                     !.failed = @ \/ ~ok]
    /\ UNCHANGED <<schedVars, saverVars, exceptTracker>>

\* _worker: queue.put(np.mean(utils[:-1], axis=0)).
WorkerPut ==
    /\ tracker.worker = "put"
    /\ tracker' = [tracker EXCEPT !.worker = "clear_again",
                                  !.queue = Append(@, "result"),
                                  !.puts = @ + 1]
    /\ UNCHANGED <<schedVars, saverVars, exceptTracker>>

\* _worker: the event.clear() that follows the put, then the loop starts over.
WorkerClearAgain ==
    /\ tracker.worker = "clear_again"
    /\ tracker' = [tracker EXCEPT !.worker = "wait", !.event = FALSE]
    /\ UNCHANGED <<schedVars, saverVars, exceptTracker>>

\* _worker: `except Exception`: queue.put(None), and the process ends.
WorkerExcept ==
    /\ tracker.worker = "except"
    /\ tracker' = [tracker EXCEPT !.worker = "dead", !.queue = Append(@, "None")]
    /\ UNCHANGED <<schedVars, saverVars, exceptTracker>>

NextTracker ==
    \/ TrackerBeforeTrain
    \/ TrackerBeforeEpoch
    \/ TrackerAfterEpoch
    \/ TrackerTriggerEpoch
    \/ TrackerAfterTrain
    \/ WorkerWait
    \/ WorkerClear
    \/ WorkerTest
    \/ WorkerSample
    \/ WorkerPut
    \/ WorkerClearAgain
    \/ WorkerExcept

InitT == InitSchedIdle /\ InitSaverIdle /\ InitTracker /\ IdleExcept("tracker")

SpecTracker == InitT /\ [][NextTracker]_vars

\* ------------------------------------------------------------ properties of GPUUtilizationTracker
\* C35: in _trigger_epoch, no result within the wait raises RuntimeError, which
\* leaves the loop and reaches the caller once after_train has run; the error
\* marker None raises StopTraining and the run returns normally; the
\* utilisation scalars are recorded exactly when a result was delivered.
C35_TriggerEpochOutcomes ==
    LET c == tracker.last
    IN  /\ c.got = "timeout" =>
               /\ c.raised = "RuntimeError" /\ ~c.recorded
               /\ tracker.main \in {"after_train", "done"}
               /\ tracker.main = "done" => tracker.result = "RuntimeError"
        /\ c.got = "None" =>
               /\ c.raised = "StopTraining" /\ ~c.recorded
               /\ tracker.main \in {"after_train", "done"}
               /\ tracker.main = "done" => tracker.result = "returned"
        /\ c.got = "result" => c.raised = "none" /\ c.recorded
        /\ tracker.scalars =
               IF c.got \in {"timeout", "None"} THEN tracker.epoch - 1
               ELSE IF tracker.main \in {"in_epoch", "trigger_epoch"} THEN tracker.epoch - 1
               ELSE tracker.epoch

\* The worker never started; the first trigger_epoch found the queue empty and
\* the run has ended with RuntimeError.
C35_Witness ==
    /\ tracker.main = "done"
    /\ tracker.last.got = "timeout"
    /\ tracker.result = "RuntimeError"
    /\ tracker.puts = 0 /\ tracker.scalars = 0

\* C36: under every interleaving of the training process and a worker that
\* neither dies nor catches an exception, the worker puts exactly one result
\* per epoch, after that epoch's after_epoch, every trigger_epoch receives a
\* result, and the queue is empty between epochs.
C36_OneResultPerEpoch ==
    ~tracker.failed =>
        /\ tracker.last.got # "timeout"
        /\ Len(tracker.queue) <= 1
        /\ tracker.main \in {"loop", "in_epoch"} =>
               /\ tracker.queue = <<>>
               /\ tracker.puts = IF tracker.main = "loop" THEN tracker.epoch
                                 ELSE tracker.epoch - 1

====
